---- MODULE Spec2Model ----
(***************************************************************************)
(* le-belle-epoch: the browser page (src/src/app.ts with                   *)
(* src/src/runtime/runtime-panel.ts) and the legacy page script            *)
(* (src/unnamed/part_000) as state machines.                               *)
(*                                                                         *)
(* The page is single threaded: a step of the model is one macrotask of    *)
(* the event loop (the arrival of a response, a timer callback, a click)   *)
(* together with all the synchronous code and promise continuations that   *)
(* run before the next suspension point.                                   *)
(*                                                                         *)
(* Text shown on the page is a sequence of string fragments (TLC cannot    *)
(* concatenate strings): "Load failed (500): boom" is                      *)
(* <<"Load failed (", "500", "): ", "boom">>. A model identifier is a text *)
(* whose fragments are its characters, so that its length is Len.          *)
(***************************************************************************)
EXTENDS Integers, Sequences, FiniteSets, TLC

VARIABLES
  page,        \* "none" before the script ran, then "app" or "legacy"
  boots,       \* the bootstrap() calls made so far, in call order
  dom,         \* heroTerminal, chatTerminal, headlineGrid, postList, systemTableBody
  panel,       \* the text fields of the runtime panel
  select,      \* llmRuntimeModelSelect: its options and its value
  disabled,    \* the disabled flags of llmRuntimeRefresh / Unload / Load
  rtInit,      \* the initRuntimePanel() call
  acts,        \* the runtime-panel actions started so far, in click order
  last,        \* history: the last fetchJson call settled (probe), the last
               \* fetchModelRuntimeStatus call returned (fetch), the last
               \* runtime-panel action completed (act)
  calc         \* one call of a pure function: its name, argument and result

vars == <<page, boots, dom, panel, select, disabled, rtInit, acts, last, calc>>

(***************************************************************************)
(* Bounds of the model.                                                    *)
(***************************************************************************)
\* page-level "refresh" clicks in one behaviour
MaxRefresh == 1
\* runtime-panel actions (Refresh / Load / Unload clicks) in one behaviour
MaxActions == 2

(***************************************************************************)
(* Values                                                                  *)
(***************************************************************************)
Undef == "undefined"
Dash == <<"-">>
JNull == [t |-> "null"]

Truthy(b) == b = "true"

\* text of a number, as a template literal or String() renders it
Str(n) == <<ToString(n)>>

\* config: the base URLs with their hardcoded defaults
config ==
  [ragBaseUrl |-> "http://127.0.0.1:8011",
   llmBaseUrl |-> "http://127.0.0.1:8080",
   audioBaseUrl |-> "http://127.0.0.1:7001"]

\* trimModelId: identifiers longer than 52 keep their first 24 and last 18
TrimLimit == 52
TrimHead == 24
TrimTail == 18

\* trimModelId, mutated: an identifier of exactly 52 characters is cut too
trimModelIdBelowLimit(value) ==
  IF value = <<>> THEN Dash
  ELSE IF Len(value) < TrimLimit THEN value
  ELSE SubSeq(value, 1, TrimHead) \o <<".", ".", ".">>
       \o SubSeq(value, Len(value) - TrimTail + 1, Len(value))

trimModelId(value) ==
  IF value = <<>> THEN Dash
  ELSE IF Len(value) <= TrimLimit THEN value
  ELSE SubSeq(value, 1, TrimHead) \o <<".", ".", ".">>
       \o SubSeq(value, Len(value) - TrimTail + 1, Len(value))

(***************************************************************************)
(* Dates. A date string carries what the platform's Date makes of it:      *)
(* iso = Undef when it does not parse (getTime() is NaN), else the text of *)
(* toISOString().slice(0, 10).                                             *)
(***************************************************************************)
NoDate == [raw |-> Undef, iso |-> Undef]
DateOf(s) == [raw |-> s, iso |-> s]
BadDate(s) == [raw |-> s, iso |-> Undef]

formatDate(value) ==
  IF value.raw = Undef \/ value.raw = "" THEN Dash
  ELSE IF value.iso = Undef THEN <<value.raw>>
  ELSE <<value.iso>>

\* Numeric timestamps are counted in units of 10^8 (TLC's integers are 32
\* bits wide): the threshold 100000000000 is 1000 units, 1700000000 s is 17.
SecondsLimit == 1000
MsPerSecond == 1000

NoStamp == [k |-> "undef", n |-> 0, d |-> NoDate]
NumStamp(n) == [k |-> "num", n |-> n, d |-> NoDate]
StrStamp(d) == [k |-> "str", n |-> 0, d |-> d]

\* toISOString().slice(0, 16).replace("T", " ") of the instant ms
IsoMinute(ms) == <<"iso-minute-of-ms", ToString(ms)>>

\* new Date(ms) is a valid date up to 8640000000000000 ms either side of the
\* epoch (86400000 units); beyond that getTime() is NaN
MaxDateMs == 86400000

ValidDate(ms) == ms >= 0 - MaxDateMs /\ ms <= MaxDateMs

\* formatTimestamp, mutated: the threshold itself still counts as seconds
formatTimestampAtLimit(value) ==
  IF value.k \in {"undef", "null"} THEN Dash
  ELSE IF value.k = "num"
    THEN LET ms == IF value.n <= SecondsLimit THEN value.n * MsPerSecond ELSE value.n
         IN IF ValidDate(ms) THEN IsoMinute(ms) ELSE Dash
    ELSE formatDate(value.d)

formatTimestamp(value) ==
  IF value.k \in {"undef", "null"} THEN Dash
  ELSE IF value.k = "num"
    THEN LET ms == IF value.n < SecondsLimit THEN value.n * MsPerSecond ELSE value.n
         IN IF ValidDate(ms) THEN IsoMinute(ms) ELSE Dash
    ELSE formatDate(value.d)

(***************************************************************************)
(* The network. A request ends in one outcome: fetch() rejects (NetErr),   *)
(* or a response arrives with a status and a body, and the body is read    *)
(* as JSON (BodyJson), is read but is not JSON (BodyBad), or fails while   *)
(* being read (BodyErr). BodyText is a body read with response.text().     *)
(***************************************************************************)
BodyNone == [t |-> "none"]
BodyBad == [t |-> "badjson"]
BodyErr == [t |-> "bodyerr"]
BodyJson(v) == [t |-> "json", v |-> v]
BodyText(txt) == [t |-> "text", v |-> txt]

NetErr == [kind |-> "neterr", status |-> 0, body |-> BodyNone]
Http(status, body) == [kind |-> "http", status |-> status, body |-> body]

\* Response.ok
ResOk(o) == o.kind = "http" /\ o.status >= 200 /\ o.status <= 299

\* A JSON value is a record whose field t is "obj", "null" or "undef"; the
\* fields of an object are read only after t has been tested.
NoData == [t |-> "undef"]

\* app.ts fetchJson, mutated: a non-2xx response counts as a success
fetchJsonIgnoreStatus(o) ==
  IF o.kind = "neterr" THEN [ok |-> FALSE, data |-> NoData]
  ELSE IF o.body.t = "json" THEN [ok |-> TRUE, data |-> o.body.v]
  ELSE [ok |-> TRUE, data |-> JNull]

\* app.ts fetchJson: res.json().catch(() => null) turns an unreadable body
\* into data null, with ok still true
fetchJson(o) ==
  IF o.kind = "neterr" THEN [ok |-> FALSE, data |-> NoData]
  ELSE IF ~ResOk(o) THEN [ok |-> FALSE, data |-> NoData]
  ELSE IF o.body.t = "json" THEN [ok |-> TRUE, data |-> o.body.v]
  ELSE [ok |-> TRUE, data |-> JNull]

\* the legacy fetchJson: await res.json() inside the try, so an unreadable
\* body is caught and gives ok false
fetchJsonLegacy(o) ==
  IF o.kind = "neterr" THEN [ok |-> FALSE, data |-> NoData]
  ELSE IF ~ResOk(o) THEN [ok |-> FALSE, data |-> NoData]
  ELSE IF o.body.t = "json" THEN [ok |-> TRUE, data |-> o.body.v]
  ELSE [ok |-> FALSE, data |-> NoData]

(***************************************************************************)
(* Requests and the other steps a call logs, all of one shape:             *)
(* <<method, base URL, path, argument>>, and <<"did", name, "", "">> for a *)
(* synchronous step (a render, a terminal text).                           *)
(***************************************************************************)
Req(method, base, path, arg) == <<method, base, path, arg>>
Did(name) == <<"did", name, "", "">>

PostsReq == Req("GET", "", "/posts.json", "")
EcosystemReq ==
  Req("GET", config.llmBaseUrl, "/internal/ecosystem/status?collection=", "anthology")
HealthReq(base) == Req("GET", base, "/health", "")
RagStatsReq(c) == Req("GET", config.ragBaseUrl, "/rag_stats?collection=", c)
ModelsReq == Req("GET", config.llmBaseUrl, "/v1/models", "")
StatusReq == Req("GET", config.llmBaseUrl, "/internal/models/status", "")
DiagnosticsReq == Req("GET", config.llmBaseUrl, "/internal/diagnostics", "")
LoadReq == Req("POST", config.llmBaseUrl, "/internal/models/load", "")
UnloadReq == Req("POST", config.llmBaseUrl, "/internal/models/unload", "")

IsReq(e) == e[1] \in {"GET", "POST"}

(***************************************************************************)
(* Posts                                                                   *)
(***************************************************************************)
MkPost(id, title, summary, tags, project, date) ==
  [id |-> id, title |-> title, summary |-> summary, tags |-> tags,
   project |-> project, voice_id |-> "kokoro_default", published_at |-> date]

fallbackPosts ==
  [generated_at |-> "2025-12-28T00:00:00Z",
   posts |->
     << MkPost("anthology-brief-001", "Anthology brief: what changed this week",
               "Snapshot of new documents, system shifts, and active experiments.",
               <<"anthology", "summary">>, "Anthology", DateOf("2025-12-28")),
        MkPost("voice-notes-002", "Voice notes: RAG maintenance signals",
               "Covers collection health, sync gaps, and query thresholds.",
               <<"rag", "maintenance">>, "mlx-services", DateOf("2025-12-27")),
        MkPost("generator-003", "Generator pipeline: markdown to posts.json",
               "Outline of the static build flow and runtime overlays.",
               <<"blog", "pipeline">>, "le-belle-epoch", DateOf("2025-12-26")),
        MkPost("systems-004", "System table: mlx-services alignment",
               "Status boards for llm, rag, audio, and mcp endpoints.",
               <<"mlx", "status">>, "mlx-services", DateOf("2025-12-25")) >>]

\* a posts.json body: posts is an array (arr), or missing / not an array
PostsBody(isArray, posts) ==
  [t |-> "obj", generated_at |-> "2026-01-01T00:00:00Z", isArray |-> isArray,
   posts |-> posts]

\* loadPosts, mutated: the status of the response is not looked at
loadPostsIgnoreStatus(o) ==
  IF o.kind = "neterr" THEN fallbackPosts
  ELSE IF o.body.t # "json" THEN fallbackPosts
  ELSE IF o.body.v.t # "obj" THEN fallbackPosts
  ELSE IF ~o.body.v.isArray THEN fallbackPosts
  ELSE [generated_at |-> o.body.v.generated_at, posts |-> o.body.v.posts]

loadPosts(o) ==
  IF o.kind = "neterr" THEN fallbackPosts
  ELSE IF ~ResOk(o) THEN fallbackPosts
  ELSE IF o.body.t # "json" THEN fallbackPosts
  ELSE IF o.body.v.t # "obj" THEN fallbackPosts
  ELSE IF ~o.body.v.isArray THEN fallbackPosts
  ELSE [generated_at |-> o.body.v.generated_at, posts |-> o.body.v.posts]

Or(s, default) == IF s = Undef \/ s = "" THEN default ELSE s

HeadlineCard(post) ==
  [project |-> Or(post.project, "Anthology"), title |-> post.title,
   summary |-> post.summary, date |-> formatDate(post.published_at),
   tags |-> post.tags]

HeadlineCount == 4

renderHeadlines(posts) ==
  [i \in 1..(IF Len(posts) < HeadlineCount THEN Len(posts) ELSE HeadlineCount)
     |-> HeadlineCard(posts[i])]

PostCard(post) ==
  [project |-> Or(post.project, "Anthology"), date |-> formatDate(post.published_at),
   tags |-> IF Len(post.tags) > 0 THEN post.tags ELSE <<"untagged">>,
   title |-> post.title, summary |-> post.summary,
   voice |-> Or(post.voice_id, "kokoro_default")]

renderPosts(posts) == [i \in 1..Len(posts) |-> PostCard(posts[i])]

(***************************************************************************)
(* Retrieval statistics                                                    *)
(***************************************************************************)
Absent == 0 - 1

NoRagData ==
  [t |-> "undef", num_documents |-> Absent, documents |-> Absent, count |-> Absent,
   updated_at |-> NoStamp, generated_at |-> NoStamp, created_at |-> NoStamp]
NullRagData == [NoRagData EXCEPT !.t = "null"]
EmptyRagData == [NoRagData EXCEPT !.t = "obj"]

\* a stats payload {ok?, data?}; self is the payload read as the data itself
NoStats == [t |-> "undef", ok |-> Undef, data |-> NoRagData, self |-> NoRagData]
NullStats == [NoStats EXCEPT !.t = "null"]
StatsOf(ok, data) == [t |-> "obj", ok |-> ok, data |-> data, self |-> EmptyRagData]

NoExtract == [t |-> "null", count |-> Dash, updated |-> Dash]

FirstNumber(a, b, c) == IF a # Absent THEN a ELSE IF b # Absent THEN b ELSE c
Nullish(stamp) == stamp.k \in {"undef", "null"}
FirstStamp(a, b, c) == IF ~Nullish(a) THEN a ELSE IF ~Nullish(b) THEN b ELSE c

\* extractRagStats, mutated: the count candidates in the legacy order
extractRagStatsCountFirst(payload) ==
  IF payload.t # "obj" THEN NoExtract
  ELSE LET data == IF payload.ok \in {"true", "false"}
                     THEN (IF payload.ok = "true" THEN payload.data ELSE NullRagData)
                     ELSE payload.self
       IN IF data.t # "obj" THEN NoExtract
          ELSE LET count == FirstNumber(data.count, data.documents, data.num_documents)
                   updated == FirstStamp(data.updated_at, data.generated_at,
                                         data.created_at)
               IN [t |-> "obj",
                   count |-> IF count # Absent THEN Str(count) ELSE Dash,
                   updated |-> formatTimestamp(updated)]

extractRagStats(payload) ==
  IF payload.t # "obj" THEN NoExtract
  ELSE LET data == IF payload.ok \in {"true", "false"}
                     THEN (IF payload.ok = "true" THEN payload.data ELSE NullRagData)
                     ELSE payload.self
       IN IF data.t # "obj" THEN NoExtract
          ELSE LET count == FirstNumber(data.num_documents, data.documents, data.count)
                   updated == FirstStamp(data.updated_at, data.generated_at,
                                         data.created_at)
               IN [t |-> "obj",
                   count |-> IF count # Absent THEN Str(count) ELSE Dash,
                   updated |-> formatTimestamp(updated)]

(***************************************************************************)
(* The aggregate ecosystem status and the system rows                      *)
(***************************************************************************)
NoService ==
  [t |-> "undef", ok |-> Undef, base_url |-> "", model_id |-> <<>>, loaded |-> Undef,
   embedding_model |-> <<>>, stats |-> NoStats]
NullService == [NoService EXCEPT !.t = "null"]
Service(ok) == [NoService EXCEPT !.t = "obj", !.ok = ok]

NoServices ==
  [t |-> "undef", llm |-> NoService, rag |-> NoService, audio |-> NoService,
   vlm |-> NoService, mcp |-> NoService]

Row(resource, type, status, docs, updated, endpoint) ==
  [resource |-> resource, type |-> type, status |-> status, docs |-> docs,
   updated |-> updated, endpoint |-> endpoint]

addServiceRow(label, service, fallbackBase, docs, updated) ==
  Row(label, "service",
      IF service.t = "obj" THEN (IF Truthy(service.ok) THEN "ok" ELSE "down")
                           ELSE "unknown",
      docs, updated,
      IF service.t = "obj" /\ service.base_url # "" THEN <<service.base_url>>
      ELSE IF fallbackBase # "" THEN <<fallbackBase>> ELSE Dash)

llmDocsLoadedFirst(llmService) ==
  IF llmService.t = "obj"
    THEN (IF Truthy(llmService.loaded) THEN <<"loaded">>
          ELSE IF llmService.model_id # <<>> THEN trimModelId(llmService.model_id)
          ELSE <<"unloaded">>)
    ELSE Dash

llmDocs(llmService) ==
  IF llmService.t = "obj"
    THEN (IF llmService.model_id # <<>> THEN trimModelId(llmService.model_id)
          ELSE IF Truthy(llmService.loaded) THEN <<"loaded">> ELSE <<"unloaded">>)
    ELSE Dash

ragDocs(ragService) ==
  IF ragService.t = "obj" /\ ragService.embedding_model # <<>>
    THEN trimModelId(ragService.embedding_model) ELSE Dash

\* the rows of the branch taken when the aggregate has a services object
ServiceRows(eco) ==
  LET updated == formatTimestamp(eco.generated_at)
      sv == eco.services
  IN << addServiceRow(<<"mlx-llm">>, sv.llm, config.llmBaseUrl, llmDocs(sv.llm), updated),
        addServiceRow(<<"mlx-rag">>, sv.rag, config.ragBaseUrl, ragDocs(sv.rag), updated),
        addServiceRow(<<"mlx-audio">>, sv.audio, config.audioBaseUrl, Dash, updated) >>
     \o (IF sv.vlm.t = "obj"
           THEN <<addServiceRow(<<"mlx-vlm">>, sv.vlm, "-", Dash, updated)>> ELSE <<>>)
     \o (IF sv.mcp.t = "obj"
           THEN <<addServiceRow(<<"mlx-mcp">>, sv.mcp, "-", Dash, updated)>> ELSE <<>>)

\* the services probed one by one when the aggregate is not usable
services ==
  << [resource |-> <<"mlx-llm">>, base |-> config.llmBaseUrl],
     [resource |-> <<"mlx-rag">>, base |-> config.ragBaseUrl],
     [resource |-> <<"mlx-audio">>, base |-> config.audioBaseUrl] >>

HealthRow(service, health) ==
  Row(service.resource, "service", IF health.ok THEN "ok" ELSE "down", Dash, Dash,
      <<service.base>>)

\* the collection loop, in another order
collectionsReordered == <<"blog", "anthology", "projects">>

collections == <<"anthology", "blog", "projects">>

RagResource(c) == <<"rag:", c>>

\* the aggregate's statistics, mutated: taken for every collection, whatever
\* collection the aggregate names
EcoHasStatsAnyCollection(eco, c) ==
  /\ eco.t = "obj"
  /\ eco.services.t = "obj"
  /\ eco.services.rag.t = "obj"
  /\ eco.services.rag.stats.t = "obj"

\* ecosystem?.services?.rag?.stats && ecosystem.collection === collection:
\* the aggregate carries the statistics of collection c
EcoHasStats(eco, c) ==
  /\ eco.t = "obj"
  /\ eco.services.t = "obj"
  /\ eco.services.rag.t = "obj"
  /\ eco.services.rag.stats.t = "obj"
  /\ eco.collection = c

\* statsResponse.ok ? { ok: true, data: statsResponse.data } : null
StatsPayloadOf(res) == IF res.ok THEN StatsOf("true", res.data) ELSE NullStats

CollectionRow(c, statsPayload) ==
  LET parsedStats == extractRagStats(statsPayload)
  IN Row(RagResource(c), "collection",
         IF parsedStats.t = "obj" THEN "ok" ELSE "down",
         parsedStats.count, parsedStats.updated,
         <<config.ragBaseUrl, "/rag_stats">>)

TableRow(row) ==
  [resource |-> row.resource, type |-> row.type,
   statusClass |-> IF row.status = "ok" THEN "ok"
                   ELSE IF row.status = "down" THEN "down" ELSE "",
   statusLabel |-> IF row.status = "ok" THEN "ok"
                   ELSE IF row.status = "down" THEN "down" ELSE "unknown",
   docs |-> row.docs, updated |-> row.updated, endpoint |-> row.endpoint]

renderTableRows(rows) == [i \in 1..Len(rows) |-> TableRow(rows[i])]

(***************************************************************************)
(* bootstrap(): one record per call. pc names the request the call is      *)
(* suspended on; log lists, in order, the requests it issued and the       *)
(* synchronous steps it made. The request a suspended call waits for is    *)
(* the last entry of its log.                                              *)
(***************************************************************************)

\* setHeroTerminal(); setChatTerminal(); await loadPosts()
bootstrap ==
  [pc |-> "posts", eco |-> JNull, rows |-> <<>>, i |-> 0,
   log |-> <<Did("setHeroTerminal"), Did("setChatTerminal"), PostsReq>>]

\* the for loop over services, suspended on the health probe of services[i]
HealthLoop(r, i) ==
  [r EXCEPT !.pc = "health", !.i = i, !.log = Append(@, HealthReq(services[i].base))]

\* the for loop over collections from collections[i] on, up to its next
\* await or to the return of loadSystemRows and renderTableRows(rows)
RECURSIVE CollectionLoop(_, _)
CollectionLoop(r, i) ==
  IF i > Len(collections)
    THEN [r EXCEPT !.pc = "done", !.i = i, !.log = Append(@, Did("renderTableRows"))]
  ELSE IF EcoHasStats(r.eco, collections[i])
    THEN CollectionLoop(
           [r EXCEPT !.rows = Append(@, CollectionRow(collections[i],
                                                      r.eco.services.rag.stats))],
           i + 1)
  ELSE [r EXCEPT !.pc = "stats", !.i = i,
                 !.log = Append(@, RagStatsReq(collections[i]))]

\* renderHeadlines, renderPosts, then loadSystemRows up to its first await
AfterPosts(r) ==
  LET shown == [r EXCEPT !.log = @ \o <<Did("renderHeadlines"), Did("renderPosts")>>]
  IN IF config.llmBaseUrl # ""
       THEN [shown EXCEPT !.pc = "eco", !.log = Append(@, EcosystemReq)]
       ELSE HealthLoop(shown, 1)

\* loadSystemRows after the aggregate probe
AfterEcosystem(r, res) ==
  LET ecosystem == IF res.ok /\ res.data.t = "obj" THEN res.data ELSE JNull
      got == [r EXCEPT !.eco = ecosystem]
  IN IF ecosystem.t = "obj" /\ ecosystem.services.t = "obj"
       THEN CollectionLoop([got EXCEPT !.rows = ServiceRows(ecosystem)], 1)
       ELSE HealthLoop(got, 1)

\* loadSystemRows after the health probe of services[r.i]
AfterHealth(r, health) ==
  LET pushed == [r EXCEPT !.rows = Append(@, HealthRow(services[r.i], health))]
  IN IF r.i < Len(services) THEN HealthLoop(pushed, r.i + 1)
                            ELSE CollectionLoop(pushed, 1)

\* loadSystemRows after the statistics probe of collections[r.i]
AfterStats(r, res) ==
  CollectionLoop(
    [r EXCEPT !.rows = Append(@, CollectionRow(collections[r.i], StatsPayloadOf(res)))],
    r.i + 1)

\* the table after a step of a call: rendered when the call has returned
\* the table after a step of a call, mutated: the rows are appended to what
\* the table holds, the container is not cleared
TableAfterAppending(r) ==
  IF r.pc = "done" THEN dom.systemTableBody \o renderTableRows(r.rows)
  ELSE dom.systemTableBody

TableAfter(r) ==
  IF r.pc = "done" THEN renderTableRows(r.rows) ELSE dom.systemTableBody

(***************************************************************************)
(* ModelRuntimeStatus and the runtime panel                                *)
(***************************************************************************)
NoQueue ==
  [t |-> "undef", has_stats |-> FALSE, active_requests |-> Absent,
   queue_size |-> Absent, active_streams |-> Absent]
NullQueue == [NoQueue EXCEPT !.t = "null"]
Queue(active, queued, streams) ==
  [t |-> "obj", has_stats |-> TRUE, active_requests |-> active,
   queue_size |-> queued, active_streams |-> streams]

NoConfig ==
  [t |-> "undef", max_concurrency |-> Absent, queue_size |-> Absent,
   queue_timeout |-> Absent, mlx_warmup |-> Undef]
NullConfig == [NoConfig EXCEPT !.t = "null"]

\* an object with no field set; model_id and model_path <<>> when absent
EmptyStatus ==
  [t |-> "obj", status |-> Undef, loaded |-> Undef, model_id |-> <<>>,
   model_path |-> <<>>, model_type |-> Undef, queue |-> NoQueue, config |-> NoConfig]

NoLoadedModel == [t |-> "undef", model_id |-> <<>>, model_path |-> <<>>, model_type |-> Undef]

EmptyDiagnostics ==
  [t |-> "obj", status |-> Undef, handler_initialized |-> Undef,
   loaded_model |-> NoLoadedModel, queue |-> NoQueue, config |-> NoConfig]

\* the record built from a diagnostics body (runtime-panel.ts 59-67)
\* the record built from a diagnostics body, mutated: queue and config are
\* copied without "|| null"
NormalizeKeepsAbsent(diagnostics) ==
  [t |-> "obj",
   status |-> diagnostics.status,
   loaded |-> diagnostics.handler_initialized,
   model_id |-> IF diagnostics.loaded_model.t = "obj"
                  THEN diagnostics.loaded_model.model_id ELSE <<>>,
   model_path |-> IF diagnostics.loaded_model.t = "obj"
                    THEN diagnostics.loaded_model.model_path ELSE <<>>,
   model_type |-> IF diagnostics.loaded_model.t = "obj"
                    THEN diagnostics.loaded_model.model_type ELSE Undef,
   queue |-> diagnostics.queue,
   config |-> diagnostics.config]

Normalize(diagnostics) ==
  [t |-> "obj",
   status |-> diagnostics.status,
   loaded |-> diagnostics.handler_initialized,
   model_id |-> IF diagnostics.loaded_model.t = "obj"
                  THEN diagnostics.loaded_model.model_id ELSE <<>>,
   model_path |-> IF diagnostics.loaded_model.t = "obj"
                    THEN diagnostics.loaded_model.model_path ELSE <<>>,
   model_type |-> IF diagnostics.loaded_model.t = "obj"
                    THEN diagnostics.loaded_model.model_type ELSE Undef,
   queue |-> IF diagnostics.queue.t = "obj" THEN diagnostics.queue ELSE NullQueue,
   config |-> IF diagnostics.config.t = "obj" THEN diagnostics.config ELSE NullConfig]

\* status?.model_id || status?.model_path || ""
ActiveModel(status) ==
  IF status.t # "obj" THEN <<>>
  ELSE IF status.model_id # <<>> THEN status.model_id ELSE status.model_path

Or0(n) == IF n = Absent THEN 0 ELSE n

Join(bits, sep) ==
  LET RECURSIVE J(_)
      J(i) == IF i > Len(bits) THEN <<>>
              ELSE (IF i > 1 THEN <<sep>> ELSE <<>>) \o bits[i] \o J(i + 1)
  IN J(1)

\* the config bits, mutated: mlx_warmup is tested for truth, not for being a
\* boolean
ConfigBitsWarmupTruthy(cfg) ==
  IF cfg.t # "obj" THEN <<>>
  ELSE (IF cfg.max_concurrency # Absent
          THEN << <<"max:", ToString(cfg.max_concurrency)>> >> ELSE <<>>)
    \o (IF cfg.queue_size # Absent
          THEN << <<"q:", ToString(cfg.queue_size)>> >> ELSE <<>>)
    \o (IF cfg.queue_timeout # Absent
          THEN << <<"timeout:", ToString(cfg.queue_timeout), "s">> >> ELSE <<>>)
    \o (IF cfg.mlx_warmup = "true" THEN << <<"warmup:on">> >> ELSE <<>>)

ConfigBits(cfg) ==
  IF cfg.t # "obj" THEN <<>>
  ELSE (IF cfg.max_concurrency # Absent
          THEN << <<"max:", ToString(cfg.max_concurrency)>> >> ELSE <<>>)
    \o (IF cfg.queue_size # Absent
          THEN << <<"q:", ToString(cfg.queue_size)>> >> ELSE <<>>)
    \o (IF cfg.queue_timeout # Absent
          THEN << <<"timeout:", ToString(cfg.queue_timeout), "s">> >> ELSE <<>>)
    \o (IF cfg.mlx_warmup \in {"true", "false"}
          THEN << <<IF cfg.mlx_warmup = "true" THEN "warmup:on" ELSE "warmup:off">> >>
          ELSE <<>>)

\* the panel before any script wrote to it
InitialPanel ==
  [loaded |-> <<>>, type |-> <<>>, model |-> <<>>, modelTitle |-> <<>>,
   queue |-> <<>>, active |-> <<>>, config |-> <<>>, statusText |-> <<>>]

setRuntimeStatusText(p, text) == [p EXCEPT !.statusText = text]

updateRuntimePanel(p, status) ==
  IF status.t # "obj"
    THEN [loaded |-> <<"Unavailable">>, type |-> Dash, model |-> Dash,
          modelTitle |-> <<>>, queue |-> Dash, active |-> Dash,
          config |-> Dash, statusText |-> <<"LLM diagnostics unavailable.">>]
    ELSE LET modelId == ActiveModel(status)
             q == status.queue
             hasStats == q.t = "obj" /\ q.has_stats
             activeRequests == IF hasStats THEN Or0(q.active_requests) ELSE 0
             queued == IF hasStats THEN Or0(q.queue_size) ELSE 0
             activeStreams == IF q.t = "obj" THEN Or0(q.active_streams) ELSE 0
             configBits == ConfigBits(status.config)
         IN [loaded |-> IF Truthy(status.loaded) THEN <<"Loaded">> ELSE <<"Not loaded">>,
             type |-> IF status.model_type \in {Undef, ""} THEN Dash
                      ELSE <<status.model_type>>,
             model |-> trimModelId(modelId),
             modelTitle |-> modelId,
             queue |-> <<ToString(activeRequests), " active / ", ToString(queued),
                         " queued">>,
             active |-> <<ToString(activeStreams), " streams">>,
             config |-> IF Len(configBits) > 0 THEN Join(configBits, " | ") ELSE Dash,
             statusText |-> <<"LLM status updated.">>]

\* setRuntimeBusy, mutated: the Load button is left as it is
\* setRuntimeBusy, mutated: it disables the controls and never enables them
setRuntimeBusyOnlyDisables(d, busy) ==
  IF busy THEN [refresh |-> TRUE, unload |-> TRUE, load |-> TRUE] ELSE d

setRuntimeBusyNotLoad(d, busy) == [d EXCEPT !.refresh = busy, !.unload = busy]

setRuntimeBusy(d, busy) == [refresh |-> busy, unload |-> busy, load |-> busy]

(***************************************************************************)
(* fetchModelRuntimeStatus: one record per call. pc is the await the call  *)
(* is suspended on: "status" / "diag" (the fetch), "statusBody" /          *)
(* "diagBody" (response.json()), "ret" once it has returned res. t1 and t2 *)
(* are the two abort timers: Off, or the milliseconds left before the      *)
(* callback is due. att lists how each attempt ended.                      *)
(***************************************************************************)
TimeoutMs == 3000
\* the resolution of the model's clock
TickMs == TimeoutMs \div 2
Off == 0 - 1

IdleFetch ==
  [pc |-> "idle", t1 |-> Off, t2 |-> Off, res |-> JNull, log |-> <<>>, att |-> <<>>]

\* the call up to its first await: the timer is set, the status fetch issued
fetchModelRuntimeStatus ==
  [pc |-> "status", t1 |-> TimeoutMs, t2 |-> Off, res |-> JNull,
   log |-> <<StatusReq>>, att |-> <<>>]

\* the first try block was left by its catch (or by a 404): second try block
ToDiagnostics(f, why) ==
  [f EXCEPT !.pc = "diag", !.t2 = TimeoutMs, !.log = Append(@, DiagnosticsReq),
            !.att = Append(@, why)]

Return(f, res, why) == [f EXCEPT !.pc = "ret", !.res = res, !.att = Append(@, why)]

\* a failed status attempt ends the call
StatusFailureReturns(f, why) == Return(f, JNull, why)

\* a failed status attempt, of any kind, goes on to the diagnostics endpoint
StatusFailure(f, why) == ToDiagnostics(f, why)

\* await fetch(statusUrl) settles with outcome o; clearTimeout runs only
\* when it resolved
StatusResponse(f, o) ==
  IF o.kind = "neterr" THEN StatusFailure(f, "neterr")
  ELSE IF ResOk(o) THEN [f EXCEPT !.pc = "statusBody", !.t1 = Off]
  ELSE StatusFailure([f EXCEPT !.t1 = Off], "http")

\* return await response.json()
StatusBody(f, body) ==
  IF body.t = "json" THEN Return(f, body.v, "ok")
  ELSE StatusFailure(f, "body")

\* the abort timer of the status attempt, mutated: it never aborts
StatusTimeoutIgnored(f) == [f EXCEPT !.t1 = Off]

\* the timer callback controller.abort() of the status attempt: the pending
\* fetch rejects; on a fetch that has already settled it does nothing
StatusTimeout(f) ==
  IF f.pc = "status" THEN StatusFailure([f EXCEPT !.t1 = Off], "timeout")
  ELSE [f EXCEPT !.t1 = Off]

DiagnosticsResponse(f, o) ==
  IF o.kind = "neterr" THEN Return(f, JNull, "neterr")
  ELSE IF ResOk(o) THEN [f EXCEPT !.pc = "diagBody", !.t2 = Off]
  ELSE Return([f EXCEPT !.t2 = Off], JNull, "http")

\* const diagnostics = await response.json(); a body that is JSON null
\* makes diagnostics.status throw, which the catch turns into null
DiagnosticsBody(f, body) ==
  IF body.t = "json" /\ body.v.t = "obj" THEN Return(f, Normalize(body.v), "ok")
  ELSE Return(f, JNull, "body")

DiagnosticsTimeout(f) ==
  IF f.pc = "diag" THEN Return([f EXCEPT !.t2 = Off], JNull, "timeout")
  ELSE [f EXCEPT !.t2 = Off]

Returned(f) == f.pc = "ret"

(***************************************************************************)
(* The model select                                                        *)
(***************************************************************************)
\* the characters of the model identifiers, in code unit order
Alphabet == <<"-", ".", "/", "0", "1", "2", "a", "b", "c", "m", "x">>
Code(ch) == CHOOSE i \in 1..Len(Alphabet) : Alphabet[i] = ch

\* a < b as Array.prototype.sort() compares strings
RECURSIVE Before(_, _)
Before(a, b) ==
  IF a = <<>> THEN b # <<>>
  ELSE IF b = <<>> THEN FALSE
  ELSE IF Head(a) = Head(b) THEN Before(Tail(a), Tail(b))
  ELSE Code(Head(a)) < Code(Head(b))

RECURSIVE Sorted(_)
Sorted(S) ==
  IF S = {} THEN <<>>
  ELSE LET least == CHOOSE x \in S : \A y \in S \ {x} : Before(x, y)
       IN <<least>> \o Sorted(S \ {least})

\* loadRuntimeModels: the ids of response.data.data, the falsy ones dropped
ModelList(isArray, data) == [t |-> "obj", isArray |-> isArray, data |-> data]

loadRuntimeModels(response) ==
  IF ~response.ok \/ response.data.t # "obj" THEN <<>>
  ELSE IF ~response.data.isArray THEN <<>>
  ELSE SelectSeq(response.data.data, LAMBDA id : id # <<>>)

Range(seq) == {seq[i] : i \in 1..Len(seq)}

Option(value, text) == [value |-> value, text |-> text, title |-> value]

populateRuntimeModelSelect(models, activeModel) ==
  LET modelSet == {m \in Range(models) : m # <<>>}
                  \cup (IF activeModel # <<>> THEN {activeModel} ELSE {})
      sorted == Sorted(modelSet)
  IN [options |-> <<[value |-> <<>>, text |-> <<"Select model">>, title |-> <<>>]>>
                  \o [i \in 1..Len(sorted) |-> Option(sorted[i], trimModelId(sorted[i]))],
      value |-> activeModel]

InitialSelect == [options |-> <<>>, value |-> <<>>]

(***************************************************************************)
(* What the servers may answer. Profile "full" has every kind of answer a  *)
(* handler distinguishes; profile "slim" keeps one success and one failure *)
(* and is used where several calls run at once.                            *)
(***************************************************************************)
M1 == <<"m", "1">>
M2 == <<"a", "b", "c">>
EmptyObject == [t |-> "obj"]

SomePosts ==
  << MkPost("p1", "First", "s1", <<>>, "", NoDate),
     [MkPost("p2", "Second", "s2", <<"x", "y">>, "lab", BadDate("soon"))
        EXCEPT !.voice_id = ""] >>

PostsOutcomes(e) ==
  IF e = "slim" THEN {NetErr, Http(200, BodyJson(PostsBody(TRUE, SomePosts)))}
  ELSE {NetErr, Http(404, BodyNone), Http(200, BodyBad), Http(200, BodyErr),
        Http(200, BodyJson(JNull)),
        Http(200, BodyJson(PostsBody(FALSE, <<>>))),
        Http(200, BodyJson(PostsBody(TRUE, SomePosts)))}

RagA ==
  [EmptyRagData EXCEPT !.documents = 42,
                       !.created_at = StrStamp(DateOf("2025-01-01"))]

Eco(generated_at, collection, sv) ==
  [t |-> "obj", generated_at |-> generated_at, collection |-> collection,
   services |-> sv]

EcoFull ==
  Eco(NumStamp(17), "anthology",
      [t |-> "obj",
       llm |-> [Service("true") EXCEPT !.model_id = M1, !.loaded = "true",
                                       !.base_url = "http://llm.local"],
       rag |-> [Service("true") EXCEPT !.embedding_model = M2,
                                       !.stats = StatsOf("true", RagA)],
       audio |-> Service("true"), vlm |-> NoService, mcp |-> NoService])

EcoDegraded ==
  Eco(NoStamp, "anthology",
      [t |-> "obj",
       llm |-> [Service("false") EXCEPT !.loaded = "true"],
       rag |-> NullService, audio |-> NoService,
       vlm |-> Service("true"), mcp |-> Service("false")])

EcoOtherCollection ==
  Eco(NumStamp(17000), "blog",
      [t |-> "obj",
       llm |-> Service("true"),
       rag |-> [Service("true") EXCEPT !.stats = StatsOf("false", NullRagData)],
       audio |-> Service("true"), vlm |-> NoService, mcp |-> Service("true")])

EcoNoServices == Eco(NoStamp, "anthology", NoServices)

EcoOutcomes(e) ==
  IF e = "slim" THEN {NetErr, Http(200, BodyJson(EcoFull))}
  ELSE {NetErr, Http(500, BodyNone), Http(200, BodyBad),
        Http(200, BodyJson(EcoFull)), Http(200, BodyJson(EcoDegraded)),
        Http(200, BodyJson(EcoOtherCollection)), Http(200, BodyJson(EcoNoServices))}

HealthOutcomes(e) ==
  IF e = "slim" THEN {Http(200, BodyJson(EmptyObject))}
  ELSE {NetErr, Http(503, BodyNone), Http(200, BodyBad),
        Http(200, BodyJson(EmptyObject))}

StatsOutcomes(e) ==
  IF e = "slim" THEN {NetErr}
  ELSE {NetErr, Http(404, BodyNone), Http(200, BodyBad), Http(200, BodyJson(RagA)),
        Http(200, BodyJson(EmptyRagData))}

ModelsOutcomes(e) ==
  IF e = "slim" THEN {Http(200, BodyJson(ModelList(TRUE, <<M2, M1>>)))}
  ELSE {NetErr, Http(500, BodyNone), Http(200, BodyBad),
        Http(200, BodyJson(ModelList(FALSE, <<>>))),
        Http(200, BodyJson(ModelList(TRUE, <<M2, <<>>, M1>>)))}

StatusLoaded ==
  [EmptyStatus EXCEPT !.status = "ok", !.loaded = "true", !.model_id = M1,
                      !.model_type = "lm", !.queue = Queue(1, 2, Absent),
                      !.config = [NoConfig EXCEPT !.t = "obj", !.max_concurrency = 2,
                                                  !.mlx_warmup = "false"]]

DiagnosticsLoaded ==
  [EmptyDiagnostics EXCEPT
     !.status = "ok", !.handler_initialized = "true",
     !.loaded_model = [t |-> "obj", model_id |-> <<>>, model_path |-> M2,
                       model_type |-> "lm"]]

\* fetch(statusUrl) and fetch(diagnosticsUrl): rejected, or a response
RuntimeOutcomes(e) ==
  IF e = "slim" THEN {NetErr, Http(200, BodyNone)}
  ELSE {NetErr, Http(200, BodyNone), Http(404, BodyNone), Http(500, BodyNone)}

StatusBodies(e) ==
  IF e = "slim" THEN {BodyJson(StatusLoaded)}
  ELSE {BodyJson(StatusLoaded), BodyJson(EmptyStatus), BodyJson(JNull), BodyBad,
        BodyErr}

DiagnosticsBodies(e) ==
  IF e = "slim" THEN {BodyJson(DiagnosticsLoaded)}
  ELSE {BodyJson(DiagnosticsLoaded), BodyJson(EmptyDiagnostics), BodyJson(JNull),
        BodyBad}

\* the POST of load / unload: rejected, or a response
MutationOutcomes == {NetErr, Http(200, BodyNone), Http(409, BodyNone), Http(500, BodyNone)}
\* response.text() of a non-2xx answer
DetailBodies == {BodyText(<<"model busy">>), BodyText(<<>>), BodyErr}

\* error.message of a rejected fetch and of a body that failed to arrive
FetchMessage == <<"Failed to fetch">>
BodyMessage == <<"network error">>

(***************************************************************************)
(* The legacy page script: no aggregate, no runtime panel                  *)
(***************************************************************************)
StampTruthy(stamp) ==
  \/ stamp.k = "str" /\ stamp.d.raw \notin {Undef, ""}
  \/ stamp.k = "num" /\ stamp.n # 0

\* formatDate(value) of the legacy script, which is handed whatever the
\* statistics carry: a number goes through new Date(value) unscaled
LegacyFormatDate(stamp) ==
  IF ~StampTruthy(stamp) THEN Dash
  ELSE IF stamp.k = "num" THEN <<"iso-date-of-ms", ToString(stamp.n)>>
  ELSE formatDate(stamp.d)

LegacyCollectionRow(c, stats) ==
  LET data == stats.data
      hasData == stats.ok /\ data.t = "obj"
      count == IF ~hasData THEN Dash
               ELSE IF data.count # Absent THEN Str(data.count)
               ELSE IF data.documents # Absent THEN Str(data.documents)
               ELSE Dash
      updated == IF ~stats.ok THEN Dash
                 ELSE IF ~hasData THEN Dash
                 ELSE LegacyFormatDate(IF StampTruthy(data.updated_at)
                                         THEN data.updated_at ELSE data.generated_at)
  IN Row(RagResource(c), "collection", IF stats.ok THEN "ok" ELSE "down",
         count, updated, <<config.ragBaseUrl, "/rag_stats">>)

LegacyCollectionLoop(r, i) ==
  IF i > Len(collections)
    THEN [r EXCEPT !.pc = "done", !.i = i, !.log = Append(@, Did("renderTableRows"))]
    ELSE [r EXCEPT !.pc = "stats", !.i = i,
                   !.log = Append(@, RagStatsReq(collections[i]))]

LegacyAfterPosts(r) ==
  HealthLoop([r EXCEPT !.log = @ \o <<Did("renderHeadlines"), Did("renderPosts")>>], 1)

LegacyAfterHealth(r, health) ==
  LET pushed == [r EXCEPT !.rows = Append(@, HealthRow(services[r.i], health))]
  IN IF r.i < Len(services) THEN HealthLoop(pushed, r.i + 1)
                            ELSE LegacyCollectionLoop(pushed, 1)

LegacyAfterStats(r, stats) ==
  LegacyCollectionLoop(
    [r EXCEPT !.rows = Append(@, LegacyCollectionRow(collections[r.i], stats))],
    r.i + 1)

(***************************************************************************)
(* The initial state: the document is loaded, the script has not run.      *)
(***************************************************************************)
heroLines ==
  <<"le-belle-epoch boot", "- posts.json: ready", "- rag sync: pending",
    "- rag endpoint: ", config.ragBaseUrl, "- llm endpoint: ", config.llmBaseUrl,
    "- audio endpoint: ", config.audioBaseUrl, "- status: awaiting prompts">>

chatLines ==
  <<"terminal feed", "- chat panel online", "- outline: headlines, briefs, status",
    "- prompt chain: inactive">>

NoProbe == [req |-> Did("none"), o |-> NetErr, res |-> [ok |-> FALSE, data |-> NoData]]
Probed(req, o, res) == [req |-> req, o |-> o, res |-> res]

NoModels == [t |-> "pending", v |-> <<>>]

\* a runtime-panel action: its kind, where it is suspended, its call of
\* fetchModelRuntimeStatus, the requests it issued itself, response.status
\* of the answer to its POST, the model it loads, and how it ended
Action(kind, pc, f, log, modelId) ==
  [kind |-> kind, pc |-> pc, f |-> f, log |-> log, code |-> 0, modelId |-> modelId,
   end |-> "none"]
NoAction == Action("none", "done", IdleFetch, <<>>, <<>>)

\* what is left of a call that has returned and whose result has been used.
\* A timer it left running aborts a fetch that has already settled, which
\* changes nothing, so the timer is not followed further.
Cleared(f) == [IdleFetch EXCEPT !.pc = "ret"]
\* what is left of an action that has completed
Ended(a) == [Action(a.kind, "done", Cleared(a.f), <<>>, <<>>) EXCEPT !.end = a.end]
\* an action that returned before its first request
Early(kind) == [Action(kind, "done", IdleFetch, <<>>, <<>>) EXCEPT !.end = "early"]

\* A call of a pure function, taken apart from the page: the function's
\* name, its argument, and its result once the call has been made.
NoCalc == [op |-> "none", arg |-> <<>>, out |-> <<>>, done |-> FALSE]

Call(op, arg) == [op |-> op, arg |-> arg, out |-> <<>>, done |-> FALSE]

\* the document as served, before its script has run
Document ==
  /\ page = "none"
  /\ boots = <<>>
  /\ dom = [heroTerminal |-> <<>>, chatTerminal |-> <<>>, headlineGrid |-> <<>>,
            postList |-> <<>>, systemTableBody |-> <<>>]
  /\ panel = InitialPanel
  /\ select = InitialSelect
  /\ disabled = [refresh |-> FALSE, unload |-> FALSE, load |-> FALSE]
  /\ rtInit = [pc |-> "idle", n |-> 0, before |-> 0, models |-> NoModels,
               f |-> IdleFetch, log |-> <<>>]
  /\ acts = <<>>
  /\ last = [probe |-> NoProbe, fetch |-> IdleFetch, act |-> NoAction]

Init == Document /\ calc = NoCalc

\* setHeroTerminal(); setChatTerminal()
WithTerminals(d) == [d EXCEPT !.heroTerminal = heroLines, !.chatTerminal = chatLines]

\* initRuntimePanel() up to its await Promise.all: both requests are issued.
\* before is the number of bootstrap() calls made earlier.
initRuntimePanel(before) ==
  [pc |-> "await", n |-> rtInit.n + 1, before |-> before, models |-> NoModels,
   f |-> fetchModelRuntimeStatus, log |-> <<ModelsReq>>]

\* init(), mutated: bootstrap() is called before initRuntimePanel()
initBootstrapFirst ==
  /\ page = "none"
  /\ page' = "app"
  /\ boots' = <<bootstrap>>
  /\ dom' = WithTerminals(dom)
  /\ rtInit' = initRuntimePanel(1)
  /\ UNCHANGED <<calc, panel, select, disabled, acts, last>>

\* init(): initChat(); initActions(); void initRuntimePanel(); void bootstrap()
init ==
  /\ page = "none"
  /\ page' = "app"
  /\ rtInit' = initRuntimePanel(Len(boots))
  /\ boots' = Append(boots, bootstrap)
  /\ dom' = WithTerminals(dom)
  /\ UNCHANGED <<calc, panel, select, disabled, acts, last>>

\* the legacy script's init(): initChat(); initActions(); void bootstrap()
initLegacy ==
  /\ page = "none"
  /\ page' = "legacy"
  /\ boots' = Append(boots, bootstrap)
  /\ dom' = WithTerminals(dom)
  /\ UNCHANGED <<calc, panel, select, disabled, rtInit, acts, last>>

(***************************************************************************)
(* The steps of bootstrap()                                                *)
(***************************************************************************)
\* await loadPosts() settles; the lists are rendered; loadSystemRows starts
PostsRespond(e) ==
  \E b \in 1..Len(boots), o \in PostsOutcomes(e) :
    /\ boots[b].pc = "posts"
    /\ LET payload == loadPosts(o)
       IN dom' = [dom EXCEPT !.headlineGrid = renderHeadlines(payload.posts),
                             !.postList = renderPosts(payload.posts)]
    /\ boots' = [boots EXCEPT ![b] = IF page = "legacy" THEN LegacyAfterPosts(@)
                                                        ELSE AfterPosts(@)]
    /\ UNCHANGED <<calc, page, panel, select, disabled, rtInit, acts, last>>

\* the aggregate probe settles
EcosystemRespond(e) ==
  \E b \in 1..Len(boots), o \in EcoOutcomes(e) :
    /\ page = "app"
    /\ boots[b].pc = "eco"
    /\ LET res == fetchJson(o)
           r == AfterEcosystem(boots[b], res)
       IN /\ boots' = [boots EXCEPT ![b] = r]
          /\ dom' = [dom EXCEPT !.systemTableBody = TableAfter(r)]
          /\ last' = [last EXCEPT !.probe = Probed(EcosystemReq, o, res)]
    /\ UNCHANGED <<calc, page, panel, select, disabled, rtInit, acts>>

\* the health probe of one service settles
HealthRespond(e) ==
  \E b \in 1..Len(boots), o \in HealthOutcomes(e) :
    /\ boots[b].pc = "health"
    /\ LET res == IF page = "legacy" THEN fetchJsonLegacy(o) ELSE fetchJson(o)
           r == IF page = "legacy" THEN LegacyAfterHealth(boots[b], res)
                                   ELSE AfterHealth(boots[b], res)
       IN /\ boots' = [boots EXCEPT ![b] = r]
          /\ dom' = [dom EXCEPT !.systemTableBody = TableAfter(r)]
          /\ last' = [last EXCEPT !.probe = Probed(HealthReq(services[boots[b].i].base), o, res)]
    /\ UNCHANGED <<calc, page, panel, select, disabled, rtInit, acts>>

\* the statistics probe of one collection settles
StatsRespond(e) ==
  \E b \in 1..Len(boots), o \in StatsOutcomes(e) :
    /\ boots[b].pc = "stats"
    /\ LET res == IF page = "legacy" THEN fetchJsonLegacy(o) ELSE fetchJson(o)
           r == IF page = "legacy" THEN LegacyAfterStats(boots[b], res)
                                   ELSE AfterStats(boots[b], res)
       IN /\ boots' = [boots EXCEPT ![b] = r]
          /\ dom' = [dom EXCEPT !.systemTableBody = TableAfter(r)]
          /\ last' = [last EXCEPT !.probe = Probed(RagStatsReq(collections[boots[b].i]), o, res)]
    /\ UNCHANGED <<calc, page, panel, select, disabled, rtInit, acts>>

\* the refresh click, mutated: it runs initRuntimePanel() again as well
\* the refresh click, mutated: the runs still in flight are abandoned
PageRefreshCancels ==
  /\ page # "none"
  /\ Len(boots) < 1 + MaxRefresh
  /\ boots' = Append([b \in 1..Len(boots) |-> [boots[b] EXCEPT !.pc = "done"]],
                     bootstrap)
  /\ dom' = WithTerminals(dom)
  /\ UNCHANGED <<calc, page, panel, select, disabled, rtInit, acts, last>>

PageRefreshWithPanel ==
  /\ page # "none"
  /\ Len(boots) < 1 + MaxRefresh
  /\ boots' = Append(boots, bootstrap)
  /\ dom' = WithTerminals(dom)
  /\ rtInit' = initRuntimePanel(Len(boots))
  /\ UNCHANGED <<calc, page, panel, select, disabled, acts, last>>

\* a click on an element with data-action="refresh": void bootstrap()
PageRefresh ==
  /\ page # "none"
  /\ Len(boots) < 1 + MaxRefresh
  /\ boots' = Append(boots, bootstrap)
  /\ dom' = WithTerminals(dom)
  /\ UNCHANGED <<calc, page, panel, select, disabled, rtInit, acts, last>>

(***************************************************************************)
(* The runtime panel. Call 0 of fetchModelRuntimeStatus is the one made by *)
(* initRuntimePanel, call c > 0 the one made by action c.                  *)
(***************************************************************************)
Calls == {0} \cup (1..Len(acts))
FetchOf(c) == IF c = 0 THEN rtInit.f ELSE acts[c].f
Finishes(f, f2) == ~Returned(f) /\ Returned(f2)

\* the rest of initRuntimePanel once Promise.all has both results:
\* updateRuntimePanel, populateRuntimeModelSelect, the three click listeners
InitPanelSettles(models, f2, hist) ==
  LET done == rtInit.pc = "await" /\ models.t = "got" /\ Returned(f2)
  IN /\ rtInit' = [rtInit EXCEPT !.models = IF done THEN [t |-> "got", v |-> <<>>]
                                                    ELSE models,
                                 !.f = IF done \/ rtInit.pc = "done" THEN Cleared(f2)
                                                                     ELSE f2,
                                 !.pc = IF done THEN "done" ELSE @]
     /\ panel' = IF done THEN updateRuntimePanel(panel, f2.res) ELSE panel
     /\ select' = IF done
                    THEN populateRuntimeModelSelect(models.v, ActiveModel(f2.res))
                    ELSE select
     /\ last' = IF Finishes(rtInit.f, f2) THEN [hist EXCEPT !.fetch = f2] ELSE hist
     /\ UNCHANGED <<disabled, acts>>

\* the select after a refresh, mutated: the option list is rebuilt from the
\* new status, as initRuntimePanel builds it
SelectRepopulated(sel, status) == populateRuntimeModelSelect(<<>>, ActiveModel(status))

\* the select after refreshRuntimePanel: the function writes the status
\* fields and the buttons, never the select
SelectAfterRefresh(sel, status) == sel

\* the rest of refreshRuntimePanel once fetchModelRuntimeStatus returned:
\* updateRuntimePanel, setRuntimeBusy(false); then, inside load / unload,
\* the finally block
ActionSettles(c, f2) ==
  LET done == Finishes(acts[c].f, f2)
      a == [acts[c] EXCEPT !.f = f2, !.pc = IF done THEN "done" ELSE @,
                           !.end = IF done THEN "refreshed" ELSE @]
  IN /\ acts' = [acts EXCEPT ![c] = IF a.pc = "done" THEN Ended(a) ELSE a]
     /\ panel' = IF done THEN updateRuntimePanel(panel, f2.res) ELSE panel
     /\ disabled' = IF done THEN setRuntimeBusy(disabled, FALSE) ELSE disabled
     /\ select' = IF done THEN SelectAfterRefresh(select, f2.res) ELSE select
     /\ last' = IF done THEN [last EXCEPT !.fetch = f2, !.act = a] ELSE last
     /\ UNCHANGED rtInit

Settles(c, f2) ==
  IF c = 0 THEN InitPanelSettles(rtInit.models, f2, last) ELSE ActionSettles(c, f2)

\* fetch(statusUrl) settles
StatusRespond(e) ==
  \E c \in Calls, o \in RuntimeOutcomes(e) :
    /\ FetchOf(c).pc = "status"
    /\ Settles(c, StatusResponse(FetchOf(c), o))
    /\ UNCHANGED <<calc, page, boots, dom>>

\* response.json() of the status answer settles
StatusBodyRead(e) ==
  \E c \in Calls, body \in StatusBodies(e) :
    /\ FetchOf(c).pc = "statusBody"
    /\ Settles(c, StatusBody(FetchOf(c), body))
    /\ UNCHANGED <<calc, page, boots, dom>>

\* fetch(diagnosticsUrl) settles
DiagnosticsRespond(e) ==
  \E c \in Calls, o \in RuntimeOutcomes(e) :
    /\ FetchOf(c).pc = "diag"
    /\ Settles(c, DiagnosticsResponse(FetchOf(c), o))
    /\ UNCHANGED <<calc, page, boots, dom>>

\* response.json() of the diagnostics answer settles
DiagnosticsBodyRead(e) ==
  \E c \in Calls, body \in DiagnosticsBodies(e) :
    /\ FetchOf(c).pc = "diagBody"
    /\ Settles(c, DiagnosticsBody(FetchOf(c), body))
    /\ UNCHANGED <<calc, page, boots, dom>>

\* the callback of the first setTimeout runs
StatusTimerFires ==
  \E c \in Calls :
    /\ FetchOf(c).t1 = 0
    /\ Settles(c, StatusTimeout(FetchOf(c)))
    /\ UNCHANGED <<calc, page, boots, dom>>

\* the callback of the second setTimeout runs
DiagnosticsTimerFires ==
  \E c \in Calls :
    /\ FetchOf(c).t2 = 0
    /\ Settles(c, DiagnosticsTimeout(FetchOf(c)))
    /\ UNCHANGED <<calc, page, boots, dom>>

\* TickMs pass: every running timer comes that much closer to its callback
Elapse(t) == IF t > 0 THEN t - TickMs ELSE t
Aged(f) == [f EXCEPT !.t1 = Elapse(@), !.t2 = Elapse(@)]

Tick ==
  /\ \E c \in Calls : FetchOf(c).t1 > 0 \/ FetchOf(c).t2 > 0
  /\ rtInit' = [rtInit EXCEPT !.f = Aged(@)]
  /\ acts' = [c \in 1..Len(acts) |-> [acts[c] EXCEPT !.f = Aged(@)]]
  /\ UNCHANGED <<calc, page, boots, dom, panel, select, disabled, last>>

\* fetchJson(`${llmBaseUrl}/v1/models`) settles inside loadRuntimeModels
ModelsRespond(e) ==
  \E o \in ModelsOutcomes(e) :
    /\ rtInit.pc = "await"
    /\ rtInit.models.t = "pending"
    /\ LET res == fetchJson(o)
       IN InitPanelSettles([t |-> "got", v |-> loadRuntimeModels(res)], rtInit.f,
                           [last EXCEPT !.probe = Probed(ModelsReq, o, res)])
    /\ UNCHANGED <<calc, page, boots, dom>>

(***************************************************************************)
(* The runtime-panel actions. A click reaches its listener only when the   *)
(* listeners are attached (initRuntimePanel has finished) and the button   *)
(* is not disabled. pc is "post" while the POST is pending, "text" while   *)
(* response.text() of a non-2xx answer is, "refresh" inside                *)
(* refreshRuntimePanel, and "done".                                        *)
(***************************************************************************)
Label(kind) == IF kind = "load" THEN "Load" ELSE "Unload"

InFlight(a) == a.pc # "done"
Listening == page = "app" /\ rtInit.pc = "done"

\* the history once an action has started: the call and the action that
\* ended last are those of the action in flight, none yet
Started == [last EXCEPT !.fetch = IdleFetch, !.act = NoAction]

\* refreshRuntimePanel(els, config.llmBaseUrl) up to its await
RefreshClick ==
  /\ Listening
  /\ ~disabled.refresh
  /\ Len(acts) < MaxActions
  /\ IF config.llmBaseUrl = ""
       THEN /\ panel' = setRuntimeStatusText(updateRuntimePanel(panel, JNull),
                                             <<"Missing LLM base URL.">>)
            /\ acts' = Append(acts, Ended(Early("refresh")))
            /\ last' = [last EXCEPT !.act = Early("refresh")]
            /\ UNCHANGED disabled
       ELSE /\ disabled' = setRuntimeBusy(disabled, TRUE)
            /\ panel' = setRuntimeStatusText(panel, <<"Refreshing...">>)
            /\ acts' = Append(acts, Action("refresh", "refresh",
                                           fetchModelRuntimeStatus, <<>>, <<>>))
            /\ last' = Started
  /\ UNCHANGED <<calc, page, boots, dom, select, rtInit>>

\* unloadRuntimeModel(els, config.llmBaseUrl) up to its await
UnloadClick ==
  /\ Listening
  /\ ~disabled.unload
  /\ Len(acts) < MaxActions
  /\ IF config.llmBaseUrl = ""
       THEN /\ panel' = setRuntimeStatusText(panel, <<"Missing LLM base URL.">>)
            /\ acts' = Append(acts, Ended(Early("unload")))
            /\ last' = [last EXCEPT !.act = Early("unload")]
            /\ UNCHANGED disabled
       ELSE /\ disabled' = setRuntimeBusy(disabled, TRUE)
            /\ panel' = setRuntimeStatusText(panel, <<"Unloading model...">>)
            /\ acts' = Append(acts, Action("unload", "post", IdleFetch,
                                           <<UnloadReq>>, <<>>))
            /\ last' = Started
  /\ UNCHANGED <<calc, page, boots, dom, select, rtInit>>

\* loadRuntimeModel(els, config.llmBaseUrl) up to its await
LoadClick ==
  /\ Listening
  /\ ~disabled.load
  /\ Len(acts) < MaxActions
  /\ IF config.llmBaseUrl = ""
       THEN /\ panel' = setRuntimeStatusText(panel, <<"Missing LLM base URL.">>)
            /\ acts' = Append(acts, Ended(Early("load")))
            /\ last' = [last EXCEPT !.act = Early("load")]
            /\ UNCHANGED disabled
       ELSE IF select.value = <<>>
       THEN /\ panel' = setRuntimeStatusText(panel, <<"Select a model to load.">>)
            /\ acts' = Append(acts, Ended(Early("load")))
            /\ last' = [last EXCEPT !.act = Early("load")]
            /\ UNCHANGED disabled
       ELSE /\ disabled' = setRuntimeBusy(disabled, TRUE)
            /\ panel' = setRuntimeStatusText(
                          panel, <<"Loading ">> \o select.value \o <<"...">>)
            /\ acts' = Append(acts, Action("load", "post", IdleFetch, <<LoadReq>>,
                                           select.value))
            /\ last' = Started
  /\ UNCHANGED <<calc, page, boots, dom, select, rtInit>>

\* the user picks another option of the select
ChooseModel ==
  \E k \in 1..Len(select.options) :
    /\ select.options[k].value # select.value
    /\ select' = [select EXCEPT !.value = select.options[k].value]
    /\ UNCHANGED <<calc, page, boots, dom, panel, disabled, rtInit, acts, last>>

FailedText(kind, code, detail) ==
  <<Label(kind), " failed (", ToString(code), "): ">> \o detail
NetworkFailedText(kind, message) == <<Label(kind), " failed (network): ">> \o message

\* the POST of load / unload, mutated: a non-2xx answer is refreshed like a
\* success
MutationSucceededAlways(a, o) == o.kind = "http"

\* response.ok of the POST of load / unload
MutationSucceeded(a, o) == ResOk(o)

\* await fetch(.../internal/models/load | unload, {method: "POST"}) settles
MutationRespond ==
  \E c \in 1..Len(acts), o \in MutationOutcomes :
    /\ acts[c].pc = "post"
    /\ IF o.kind = "neterr"
         THEN LET a == [acts[c] EXCEPT !.pc = "done", !.end = "network"]
              IN /\ panel' = setRuntimeStatusText(
                               panel, NetworkFailedText(a.kind, FetchMessage))
                 /\ disabled' = setRuntimeBusy(disabled, FALSE)
                 /\ acts' = [acts EXCEPT ![c] = Ended(a)]
                 /\ last' = [last EXCEPT !.act = a]
       ELSE IF ~MutationSucceeded(acts[c], o)
         THEN /\ acts' = [acts EXCEPT ![c].pc = "text", ![c].code = o.status]
              /\ UNCHANGED <<panel, disabled, last>>
         ELSE /\ disabled' = setRuntimeBusy(disabled, TRUE)
              /\ panel' = setRuntimeStatusText(panel, <<"Refreshing...">>)
              /\ acts' = [acts EXCEPT ![c].pc = "refresh", ![c].code = o.status,
                                      ![c].f = fetchModelRuntimeStatus]
              /\ UNCHANGED last
    /\ UNCHANGED <<calc, page, boots, dom, select, rtInit>>

\* await response.text() of a non-2xx answer settles; then the finally block
DetailRead ==
  \E c \in 1..Len(acts), body \in DetailBodies :
    /\ acts[c].pc = "text"
    /\ LET a == [acts[c] EXCEPT !.pc = "done",
                                !.end = IF body.t = "text" THEN "http" ELSE "network"]
       IN /\ panel' = setRuntimeStatusText(
                        panel,
                        IF body.t = "text" THEN FailedText(a.kind, a.code, body.v)
                        ELSE NetworkFailedText(a.kind, BodyMessage))
          /\ disabled' = setRuntimeBusy(disabled, FALSE)
          /\ acts' = [acts EXCEPT ![c] = Ended(a)]
          /\ last' = [last EXCEPT !.act = a]
    /\ UNCHANGED <<calc, page, boots, dom, select, rtInit>>

(***************************************************************************)
(* Specifications                                                          *)
(***************************************************************************)
\* The load of either page, with every kind of answer to the probes of
\* bootstrap(); no clicks.
Next ==
  \/ init
  \/ initLegacy
  \/ PostsRespond("full")
  \/ EcosystemRespond("full")
  \/ HealthRespond("full")
  \/ StatsRespond("full")
  \/ ModelsRespond("full")
  \/ StatusRespond("slim")
  \/ StatusBodyRead("slim")
  \/ DiagnosticsRespond("slim")
  \/ DiagnosticsBodyRead("slim")

Spec == Init /\ [][Next]_vars

\* The page with page-level refresh clicks: several bootstrap() calls at once.
NextPage ==
  \/ init
  \/ initLegacy
  \/ PageRefresh
  \/ PostsRespond("slim")
  \/ EcosystemRespond("slim")
  \/ HealthRespond("slim")
  \/ StatsRespond("slim")
  \/ ModelsRespond("slim")
  \/ StatusRespond("slim")
  \/ StatusBodyRead("slim")
  \/ DiagnosticsRespond("slim")
  \/ DiagnosticsBodyRead("slim")

SpecPage == Init /\ [][NextPage]_vars

\* One call of fetchModelRuntimeStatus, the one initRuntimePanel makes, with
\* every kind of answer and the two abort timers.
NextRuntime ==
  \/ init
  \/ ModelsRespond("full")
  \/ StatusRespond("full")
  \/ StatusBodyRead("full")
  \/ DiagnosticsRespond("full")
  \/ DiagnosticsBodyRead("full")
  \/ StatusTimerFires
  \/ DiagnosticsTimerFires
  \/ Tick

SpecRuntime == Init /\ [][NextRuntime]_vars

\* the timers run: time passes while a timer is pending, and a timer that is
\* due has its callback run by the event loop
LiveRuntime ==
  SpecRuntime /\ WF_vars(Tick) /\ WF_vars(StatusTimerFires)
              /\ WF_vars(DiagnosticsTimerFires)

\* The runtime panel: its initialisation, its three actions, the timers.
NextPanel ==
  \/ init
  \/ ModelsRespond("slim")
  \/ StatusRespond("slim")
  \/ StatusBodyRead("slim")
  \/ DiagnosticsRespond("slim")
  \/ DiagnosticsBodyRead("slim")
  \/ StatusTimerFires
  \/ DiagnosticsTimerFires
  \/ Tick
  \/ RefreshClick
  \/ UnloadClick
  \/ LoadClick
  \/ ChooseModel
  \/ MutationRespond
  \/ DetailRead

SpecPanel == Init /\ [][NextPanel]_vars

\* every request issued settles, and the timers run
LivePanel ==
  /\ SpecPanel
  /\ WF_vars(ModelsRespond("slim"))
  /\ WF_vars(StatusRespond("slim"))
  /\ WF_vars(StatusBodyRead("slim"))
  /\ WF_vars(DiagnosticsRespond("slim"))
  /\ WF_vars(DiagnosticsBodyRead("slim"))
  /\ WF_vars(MutationRespond)
  /\ WF_vars(DetailRead)
  /\ WF_vars(Tick)
  /\ WF_vars(StatusTimerFires)
  /\ WF_vars(DiagnosticsTimerFires)

(***************************************************************************)
(* The pure functions of the scripts, each called once on an argument      *)
(* drawn from a small set, with no page loaded                             *)
(***************************************************************************)
Rest == <<page, boots, dom, panel, select, disabled, rtInit, acts, last>>

Applies(op, out) ==
  /\ calc.op = op
  /\ ~calc.done
  /\ calc' = [calc EXCEPT !.out = out, !.done = TRUE]
  /\ UNCHANGED Rest

\* identifiers of every length up to MaxIdLen, the characters of each
\* varying with their position
MaxIdLen == 60

Id(n) == [i \in 1..n |-> Alphabet[5 + (i % 7)]]

Identifiers == {Id(n) : n \in 0..MaxIdLen}

TrimApply == Applies("trimModelId", trimModelId(calc.arg))

\* services.llm of an aggregate: absent, null, or an object with any of ok,
\* model_id, loaded and base_url
LlmServices ==
  {NoService, NullService}
  \cup {[Service(ok) EXCEPT !.model_id = m, !.loaded = l, !.base_url = u] :
          ok \in {"true", "false", Undef}, m \in {<<>>, M1, Id(TrimLimit + 1)},
          l \in {"true", "false", Undef}, u \in {"", "http://llm.local"}}

EcoWithLlm(llm) ==
  Eco(NoStamp, "anthology", [NoServices EXCEPT !.t = "obj", !.llm = llm])

\* the first row loadSystemRows makes of an aggregate with a services object
LlmRowApply == Applies("llmRow", ServiceRows(EcoWithLlm(calc.arg))[1])

\* answers to GET /posts.json: every kind of failure, and two readable
\* bodies with a posts array
PostsAnswers ==
  PostsOutcomes("full")
  \cup {Http(500, BodyNone), Http(304, BodyNone),
        Http(404, BodyJson(PostsBody(TRUE, SomePosts))),
        Http(200, BodyJson(PostsBody(FALSE, SomePosts))),
        Http(201, BodyJson(PostsBody(TRUE, <<>>)))}

\* bootstrap's use of loadPosts: the payload, and the post list made of it
PostsApply ==
  Applies("loadPosts", [payload |-> loadPosts(calc.arg),
                        postList |-> renderPosts(loadPosts(calc.arg).posts)])

\* bodies of the diagnostics endpoint: every field present or not
LoadedModels ==
  {NoLoadedModel, [NoLoadedModel EXCEPT !.t = "null"],
   [t |-> "obj", model_id |-> M1, model_path |-> <<>>, model_type |-> "chat"],
   [t |-> "obj", model_id |-> <<>>, model_path |-> M2, model_type |-> Undef]}

Diagnostics ==
  {[EmptyDiagnostics EXCEPT !.status = s, !.handler_initialized = h,
                            !.loaded_model = lm, !.queue = q, !.config = c] :
     s \in {Undef, "ok"}, h \in {Undef, "true", "false"}, lm \in LoadedModels,
     q \in {NoQueue, NullQueue, Queue(1, 2, Absent)},
     c \in {NoConfig, NullConfig, StatusLoaded.config}}

\* what fetchModelRuntimeStatus returns once the diagnostics body is read
DiagnosticsApply ==
  Applies("diagnostics",
          DiagnosticsBody(ToDiagnostics(fetchModelRuntimeStatus, "404"),
                          BodyJson(calc.arg)).res)

\* retrieval statistics with every combination of the six candidate fields
RagDatas ==
  {[EmptyRagData EXCEPT !.num_documents = a, !.documents = b, !.count = c,
                        !.updated_at = u, !.generated_at = g, !.created_at = cr] :
     a \in {Absent, 5}, b \in {Absent, 42}, c \in {Absent, 0},
     u \in {NoStamp, StrStamp(DateOf("2024-06-01"))},
     g \in {NoStamp, NumStamp(17)},
     cr \in {NoStamp, StrStamp(DateOf("2025-01-01"))}}

\* what extractRagStats is handed: nothing, {ok, data}, or the statistics
\* themselves
StatsPayloads ==
  {NoStats, NullStats, StatsOf("true", NullRagData), StatsOf("false", RagA)}
  \cup {StatsOf("true", d) : d \in RagDatas}
  \cup {[StatsOf(Undef, NoRagData) EXCEPT !.self = d] : d \in RagDatas}

\* the collection row the page script makes of a statistics payload
StatsRowApply == Applies("extractRagStats", CollectionRow("anthology", calc.arg))

\* what the legacy script's fetchJson hands its loop for /rag_stats
LegacyStatsResults ==
  {[ok |-> FALSE, data |-> NoData], [ok |-> TRUE, data |-> NullRagData]}
  \cup {[ok |-> TRUE, data |-> d] : d \in RagDatas}

\* the collection row the legacy script makes of it
LegacyStatsRowApply ==
  Applies("legacyStats", LegacyCollectionRow("anthology", calc.arg))

\* timestamps: none, numbers on both sides of the seconds threshold and of
\* the range of Date, and strings that are dates or not
Stamps ==
  {NoStamp, [NoStamp EXCEPT !.k = "null"]}
  \cup {NumStamp(n) : n \in (0 - 17)..20 \cup 990..1010
                         \cup {17000, MaxDateMs, MaxDateMs + 1}}
  \cup {StrStamp(d) : d \in {DateOf("2025-01-01"),
                             [raw |-> "2025-01-01T10:00:00Z", iso |-> "2025-01-01"],
                             BadDate("soon"), BadDate("n/a"), BadDate("")}}

TimestampApply == Applies("formatTimestamp", formatTimestamp(calc.arg))

\* what updateRuntimePanel is handed: null, or a status with any of its
\* optional fields missing
Queues ==
  {NoQueue, NullQueue, [NoQueue EXCEPT !.t = "obj"], Queue(1, 2, 3),
   Queue(Absent, 2, Absent), Queue(1, Absent, 3),
   [NoQueue EXCEPT !.t = "obj", !.active_streams = 3]}

Configs ==
  {NoConfig, NullConfig, [NoConfig EXCEPT !.t = "obj"],
   [NoConfig EXCEPT !.t = "obj", !.mlx_warmup = "false"],
   [NoConfig EXCEPT !.t = "obj", !.queue_size = 8, !.queue_timeout = 30],
   [NoConfig EXCEPT !.t = "obj", !.max_concurrency = 2, !.queue_size = 8,
                    !.queue_timeout = 30, !.mlx_warmup = "true"]}

Statuses ==
  {JNull}
  \cup {[EmptyStatus EXCEPT !.model_type = ty, !.model_id = id, !.queue = q,
                            !.config = c] :
          ty \in {Undef, "lm"}, id \in {<<>>, M1}, q \in Queues, c \in Configs}

PanelApply ==
  Applies("updateRuntimePanel", updateRuntimePanel(InitialPanel, calc.arg))

InitCalc ==
  /\ Document
  /\ \/ \E v \in Identifiers : calc = Call("trimModelId", v)
     \/ \E v \in LlmServices : calc = Call("llmRow", v)
     \/ \E v \in PostsAnswers : calc = Call("loadPosts", v)
     \/ \E v \in Diagnostics : calc = Call("diagnostics", v)
     \/ \E v \in StatsPayloads : calc = Call("extractRagStats", v)
     \/ \E v \in LegacyStatsResults : calc = Call("legacyStats", v)
     \/ \E v \in Stamps : calc = Call("formatTimestamp", v)
     \/ \E v \in Statuses : calc = Call("updateRuntimePanel", v)

NextCalc ==
  \/ TrimApply
  \/ LlmRowApply
  \/ PostsApply
  \/ DiagnosticsApply
  \/ StatsRowApply
  \/ LegacyStatsRowApply
  \/ TimestampApply
  \/ PanelApply

SpecCalc == InitCalc /\ [][NextCalc]_vars

(***************************************************************************)
(* Properties                                                              *)
(***************************************************************************)
Min(a, b) == IF a < b THEN a ELSE b
IsPrefix(p, q) == Len(p) <= Len(q) /\ \A i \in 1..Len(p) : p[i] = q[i]
Count(seq, x) == Cardinality({i \in 1..Len(seq) : seq[i] = x})

C2_StatusThenDiagnostics ==
  /\ \A c \in Calls : IsPrefix(FetchOf(c).log, <<StatusReq, DiagnosticsReq>>)
  /\ \A c \in Calls :
       FetchOf(c).pc \in {"status", "statusBody", "diag", "diagBody"}
         => FetchOf(c).log # <<>> /\ FetchOf(c).log[1] = StatusReq
  /\ Returned(last.fetch) =>
       LET f == last.fetch
       IN /\ Len(f.att) \in {1, 2}
          /\ f.att[1] = "ok" =>
               /\ f.att = <<"ok">>
               /\ f.log = <<StatusReq>>
               /\ BodyJson(f.res) \in StatusBodies("full")
          /\ f.att[1] # "ok" =>
               /\ Len(f.att) = 2
               /\ f.log = <<StatusReq, DiagnosticsReq>>
          /\ f.res.t = "null" =>
               \/ Len(f.att) = 2 /\ f.att[1] # "ok" /\ f.att[2] # "ok"
               \/ f.att = <<"ok">>

\* C2 as claimed: null is returned only when both attempts have failed
C2_AsClaimed ==
  (Returned(last.fetch) /\ last.fetch.res.t = "null")
    => (Len(last.fetch.att) = 2 /\ last.fetch.att[1] # "ok"
          /\ last.fetch.att[2] # "ok")

\* the status attempt failed and the diagnostics attempt gave the result
C2_Witness ==
  /\ Returned(last.fetch)
  /\ last.fetch.att = <<"http", "ok">>
  /\ last.fetch.res = Normalize(DiagnosticsLoaded)

\* C3: while an attempt of fetchModelRuntimeStatus waits for its response
\* its 3000 ms timer is running; an attempt ends by timeout only when its
\* timer is due, and then as a failure: the status attempt by moving on to
\* diagnostics, the diagnostics attempt by returning null; and an attempt is
\* always left, by a response or by its timer, so a call to which no
\* endpoint answers returns.
C3_AttemptsTimeBounded ==
  /\ [](\A c \in Calls :
          /\ FetchOf(c).pc = "status" => FetchOf(c).t1 \in 0..TimeoutMs
          /\ FetchOf(c).pc = "diag" => FetchOf(c).t2 \in 0..TimeoutMs)
  /\ [][ (Len(rtInit'.f.att) > Len(rtInit.f.att)
            /\ rtInit'.f.att[Len(rtInit'.f.att)] = "timeout")
           => /\ Len(rtInit'.f.att) = 1
                   => /\ rtInit.f.pc = "status" /\ rtInit.f.t1 = 0
                      /\ rtInit'.f.pc = "diag" /\ rtInit'.f.t2 = TimeoutMs
              /\ Len(rtInit'.f.att) = 2
                   => /\ rtInit.f.pc = "diag" /\ rtInit.f.t2 = 0
                      /\ rtInit'.f.pc = "ret" /\ rtInit'.f.res = JNull ]_vars
  /\ (rtInit.f.pc = "status") ~> (rtInit.f.pc \in {"statusBody", "diagBody", "ret"})
  /\ (rtInit.f.pc = "diag") ~> (rtInit.f.pc \in {"diagBody", "ret"})

\* neither endpoint answered: both timers fired and the call returned null
C3_Witness ==
  /\ Returned(last.fetch)
  /\ last.fetch.att = <<"timeout", "timeout">>
  /\ last.fetch.res = JNull

\* C4: at most one runtime-panel action is in flight, and while one is,
\* from its first request to the end of its last, the Refresh, Unload and
\* Load buttons are all disabled.
C4_MutualExclusion ==
  /\ Cardinality({c \in 1..Len(acts) : InFlight(acts[c])}) <= 1
  /\ (\E c \in 1..Len(acts) : InFlight(acts[c]))
       => (disabled.refresh /\ disabled.unload /\ disabled.load)

\* a second action, a load, is inside its follow-up status refresh
C4_Witness ==
  /\ Len(acts) = 2
  /\ acts[2].kind = "load"
  /\ acts[2].pc = "refresh"
  /\ acts[2].f.pc = "diag"

\* the steps of one bootstrap() call up to the end of its renders of posts
BootPlan ==
  <<Did("setHeroTerminal"), Did("setChatTerminal"), PostsReq,
    Did("renderHeadlines"), Did("renderPosts")>>

\* C5, as the code has it: on page initialisation the runtime panel's first
\* requests are issued before bootstrap() is called, and bootstrap() then
\* goes: terminal text, posts snapshot requested, post lists rendered, system
\* rows probed, status table rendered. The table is rendered once, after the
\* last probe, whatever the runtime panel is doing.
C5_InitOrder ==
  (page = "app" /\ Len(boots) = 1) =>
    LET r == boots[1]
        n == Len(r.log)
    IN /\ rtInit.pc # "idle" /\ rtInit.n = 1 /\ rtInit.before = 0
       /\ dom.heroTerminal = heroLines /\ dom.chatTerminal = chatLines
       /\ \A i \in 1..Min(n, Len(BootPlan)) : r.log[i] = BootPlan[i]
       /\ (r.pc = "posts") <=> (n = 3)
       /\ r.pc = "posts" => dom.headlineGrid = <<>> /\ dom.postList = <<>>
       /\ \A i \in (Len(BootPlan) + 1)..n :
            \/ IsReq(r.log[i]) /\ r.log[i] # PostsReq
            \/ i = n /\ r.log[i] = Did("renderTableRows")
       /\ (r.pc = "done") <=> (r.log[n] = Did("renderTableRows"))
       /\ r.pc # "done" => dom.systemTableBody = <<>>
       /\ r.pc = "done" => dom.systemTableBody = renderTableRows(r.rows)

\* C5 as claimed: no runtime-panel request is issued before the status table
\* has been rendered
C5_AsClaimed ==
  (page = "app" /\ rtInit.pc # "idle") => (Len(boots) > 0 /\ boots[1].pc = "done")

\* the table is rendered while the runtime panel still waits for its answers
C5_Witness ==
  /\ page = "app"
  /\ Len(boots) = 1
  /\ boots[1].pc = "done"
  /\ rtInit.pc = "await"
  /\ rtInit.f.pc = "status"

Mutating(a) == a.kind \in {"load", "unload"}
PostOf(a) == IF a.kind = "load" THEN LoadReq ELSE UnloadReq
\* action c completes in this step
Completes(c) == InFlight(acts[c]) /\ ~InFlight(acts'[c])

\* C7: a load or unload action issues exactly one POST, to its own endpoint;
\* when the POST succeeds the action fetches the runtime status again (the
\* status endpoint, then diagnostics if that fails) and renders it into the
\* runtime panel; from its click to its end no step of the action touches
\* the post lists, the system table, the bootstrap runs or the options of
\* the model select.
C7_LoadUnloadRefreshOnlyPanel ==
  [][ \A c \in 1..Len(acts) :
        (Mutating(acts[c]) /\ InFlight(acts[c])) =>
          /\ acts[c].log = <<PostOf(acts[c])>>
          /\ IsPrefix(acts[c].f.log, <<StatusReq, DiagnosticsReq>>)
          /\ dom' = dom /\ boots' = boots /\ rtInit' = rtInit
          /\ select'.options = select.options
          /\ Completes(c) =>
               /\ last'.act.log = <<PostOf(acts[c])>>
               /\ last'.act.end = "refreshed" =>
                    /\ acts[c].pc = "refresh"
                    /\ last'.act.f.log \in {<<StatusReq>>, <<StatusReq, DiagnosticsReq>>}
                    /\ panel' = updateRuntimePanel(panel, last'.act.f.res)
                    /\ select' = select ]_vars

\* an unload succeeded and its refresh got the status from diagnostics
C7_Witness ==
  /\ last.act.kind = "unload"
  /\ last.act.end = "refreshed"
  /\ last.act.log = <<UnloadReq>>
  /\ last.act.f.log = <<StatusReq, DiagnosticsReq>>
  /\ panel.modelTitle = M2

\* C8, as the code has it: when the load or unload POST is answered with a
\* non-2xx status or is rejected, the action issues no status refresh and
\* ends by writing a failure text into the status field: with the status
\* code and the response body when the body of the response could be read,
\* and the network-failure text when the fetch was rejected or the body
\* could not be read. The other fields of the runtime panel, the select and
\* the other panels stay as they are.
C8_FailureShownInline ==
  [][ \A c \in 1..Len(acts) :
        (Mutating(acts[c]) /\ InFlight(acts[c])) =>
          /\ (acts[c].pc = "post" /\ acts'[c].code # 0
                /\ ~(acts'[c].code >= 200 /\ acts'[c].code <= 299))
               => (acts'[c].pc = "text" /\ acts'[c].f = IdleFetch /\ panel' = panel)
          /\ (acts[c].pc = "post" /\ acts'[c].code >= 200 /\ acts'[c].code <= 299)
               => acts'[c].pc = "refresh"
          /\ (Completes(c) /\ acts[c].pc \in {"post", "text"}) =>
               /\ last'.act.end \in {"http", "network"}
               /\ last'.act.f = IdleFetch
               /\ last'.act.end = "http" =>
                    \E detail \in {b.v : b \in {d \in DetailBodies : d.t = "text"}} :
                      panel'.statusText =
                        <<IF acts[c].kind = "load" THEN "Load" ELSE "Unload",
                          " failed (", ToString(acts[c].code), "): ">> \o detail
               /\ last'.act.end = "network" =>
                    \E message \in {FetchMessage, BodyMessage} :
                      panel'.statusText =
                        <<IF acts[c].kind = "load" THEN "Load" ELSE "Unload",
                          " failed (network): ">> \o message
               /\ [panel' EXCEPT !.statusText = panel.statusText] = panel
               /\ select' = select /\ dom' = dom /\ boots' = boots
               /\ rtInit' = rtInit ]_vars

\* C8 as claimed: whenever a response to the POST exists, the failure text
\* holds its status code
C8_AsClaimed ==
  [][ \A c \in 1..Len(acts) :
        (Mutating(acts[c]) /\ acts[c].pc = "text" /\ Completes(c))
          => (Len(panel'.statusText) >= 3
                /\ panel'.statusText[3] = ToString(acts[c].code)) ]_vars

\* a load was answered 409 with a body, and the text shows both
C8_Witness ==
  /\ last.act.kind = "load"
  /\ last.act.end = "http"
  /\ last.act.code = 409
  /\ panel.statusText = <<"Load", " failed (", "409", "): ", "model busy">>

\* the aggregate answered with a services object
HasServices(eco) == eco.t = "obj" /\ eco.services.t = "obj"
\* the aggregate names collection c and carries the statistics of RAG
CoversCollection(eco, c) ==
  /\ HasServices(eco)
  /\ eco.services.rag.t = "obj"
  /\ eco.services.rag.stats.t = "obj"
  /\ eco.collection = c

\* the documented order of the rows of a run whose aggregate is eco
RowOrder(eco) ==
  << <<"mlx-llm">>, <<"mlx-rag">>, <<"mlx-audio">> >>
  \o (IF HasServices(eco) /\ eco.services.vlm.t = "obj" THEN << <<"mlx-vlm">> >>
                                                         ELSE <<>>)
  \o (IF HasServices(eco) /\ eco.services.mcp.t = "obj" THEN << <<"mlx-mcp">> >>
                                                         ELSE <<>>)
  \o << <<"rag:", "anthology">>, <<"rag:", "blog">>, <<"rag:", "projects">> >>

\* the request the row of a resource is made from
ProbeFor(eco, resource) ==
  IF Len(resource) = 2
    THEN IF CoversCollection(eco, resource[2])
           THEN EcosystemReq
           ELSE Req("GET", config.ragBaseUrl, "/rag_stats?collection=", resource[2])
  ELSE IF HasServices(eco) THEN EcosystemReq
  ELSE IF resource = <<"mlx-llm">> THEN Req("GET", config.llmBaseUrl, "/health", "")
  ELSE IF resource = <<"mlx-rag">> THEN Req("GET", config.ragBaseUrl, "/health", "")
  ELSE Req("GET", config.audioBaseUrl, "/health", "")

\* the requests of a run that have been answered: all it issued but the one
\* it is suspended on
Answered(r) ==
  {r.log[i] : i \in {j \in 1..(Len(r.log) - (IF r.pc = "done" THEN 0 ELSE 1)) :
                      IsReq(r.log[j])}}

\* C9: in every run of loadSystemRows, on either page, the rows are in the
\* fixed order mlx-llm, mlx-rag, mlx-audio, then mlx-vlm and mlx-mcp when the
\* aggregate reports them, then rag:anthology, rag:blog, rag:projects; a row
\* is there only when the request it is made from has been answered; and the
\* run ends with all of them.
C9_RowsInOrderAfterProbe ==
  \A b \in 1..Len(boots) :
    LET r == boots[b]
        resources == [i \in 1..Len(r.rows) |-> r.rows[i].resource]
    IN /\ IsPrefix(resources, RowOrder(r.eco))
       /\ \A i \in 1..Len(r.rows) : ProbeFor(r.eco, resources[i]) \in Answered(r)
       /\ r.pc = "done" => resources = RowOrder(r.eco)
       /\ r.pc \in {"health", "stats"} => resources # RowOrder(r.eco)

\* a run on the fallback path waits for the statistics of blog with the rows
\* of the three services and of anthology made
C9_Witness ==
  \E b \in 1..Len(boots) :
    /\ boots[b].pc = "stats"
    /\ boots[b].eco = JNull
    /\ Len(boots[b].rows) = 4
    /\ boots[b].rows[4].resource = <<"rag:", "anthology">>
    /\ boots[b].log[Len(boots[b].log)] = RagStatsReq("blog")

HealthRequests(r) ==
  Cardinality({i \in 1..Len(r.log) : IsReq(r.log[i]) /\ r.log[i][3] = "/health"})
StatsRequests(r, c) ==
  Count(r.log, Req("GET", config.ragBaseUrl, "/rag_stats?collection=", c))

\* C10, as the code has it: the aggregate endpoint is requested once, first.
\* When it answers with a services object, the service rows come from it and
\* no /health request is issued; the statistics are taken from it only for
\* the collection it names, and only when it carries services.rag.stats:
\* every other collection gets its own /rag_stats request. Without a usable
\* aggregate the run issues one /health request per service and one
\* /rag_stats request per collection.
C10_AggregateThenProbes ==
  \A b \in 1..Len(boots) :
    LET r == boots[b]
    IN /\ page = "app" => Count(r.log, EcosystemReq) = (IF r.pc = "posts" THEN 0 ELSE 1)
       /\ HasServices(r.eco) => HealthRequests(r) = 0
       /\ HealthRequests(r) <= 3
       /\ \A c \in {"anthology", "blog", "projects"} :
            /\ StatsRequests(r, c) <= 1
            /\ CoversCollection(r.eco, c) => StatsRequests(r, c) = 0
            /\ (r.pc = "done" /\ ~CoversCollection(r.eco, c)) => StatsRequests(r, c) = 1
       /\ (r.pc \in {"stats", "done"} /\ ~HasServices(r.eco)) =>
            /\ HealthRequests(r) = 3
            /\ \A base \in {config.llmBaseUrl, config.ragBaseUrl, config.audioBaseUrl} :
                 Count(r.log, Req("GET", base, "/health", "")) = 1

\* C10 as claimed: with a services object in the aggregate, no /health and
\* no /rag_stats request is issued
C10_AsClaimed ==
  \A b \in 1..Len(boots) :
    HasServices(boots[b].eco) =>
      /\ HealthRequests(boots[b]) = 0
      /\ \A c \in {"anthology", "blog", "projects"} : StatsRequests(boots[b], c) = 0

\* a run whose aggregate carried the statistics of anthology has ended after
\* asking for those of blog and projects
C10_Witness ==
  \E b \in 1..Len(boots) :
    /\ boots[b].pc = "done"
    /\ CoversCollection(boots[b].eco, "anthology")
    /\ StatsRequests(boots[b], "anthology") = 0
    /\ StatsRequests(boots[b], "blog") = 1
    /\ StatsRequests(boots[b], "projects") = 1
    /\ HealthRequests(boots[b]) = 0

\* C11: when the aggregate has a services object whose llm entry reports ok
\* false, the mlx-llm row has status "down"; its docs field is "-" only if
\* model_id is absent and loaded is falsy, and a docs field other than "-" is
\* the trimmed model id when model_id is present, else "loaded" when loaded
\* is truthy, else "unloaded".
C11_LlmRowDown ==
  (calc.op = "llmRow" /\ calc.done
     /\ calc.arg.t = "obj" /\ calc.arg.ok = "false") =>
    /\ calc.out.resource = <<"mlx-llm">>
    /\ calc.out.status = "down"
    /\ calc.out.docs = Dash
         => (calc.arg.model_id = <<>> /\ ~Truthy(calc.arg.loaded))
    /\ calc.out.docs # Dash
         => calc.out.docs =
              (IF calc.arg.model_id # <<>>
                 THEN (IF Len(calc.arg.model_id) <= 52 THEN calc.arg.model_id
                       ELSE SubSeq(calc.arg.model_id, 1, 24) \o <<".", ".", ".">>
                            \o SubSeq(calc.arg.model_id,
                                      Len(calc.arg.model_id) - 17,
                                      Len(calc.arg.model_id)))
               ELSE IF calc.arg.loaded = "true" THEN <<"loaded">>
               ELSE <<"unloaded">>)

C11_Witness ==
  /\ calc.op = "llmRow"
  /\ calc.arg.t = "obj" /\ calc.arg.ok = "false"
  /\ calc.arg.model_id = <<>> /\ calc.arg.loaded = Undef
  /\ calc.done
  /\ calc.out.status = "down"
  /\ calc.out.docs = <<"unloaded">>

\* C12: if GET /posts.json fails (network failure, non-2xx status, a body
\* that is not JSON, or a body whose posts field is missing or not an array),
\* loadPosts returns the embedded fallback payload, and the post list made of
\* it is the four fallback posts in their order: anthology-brief-001,
\* voice-notes-002, generator-003, systems-004.
PostsFailed(o) ==
  \/ o.kind = "neterr"
  \/ o.status < 200
  \/ o.status > 299
  \/ o.body.t # "json"
  \/ o.body.v.t # "obj"
  \/ ~o.body.v.isArray

C12_FallbackPosts ==
  (calc.op = "loadPosts" /\ calc.done /\ PostsFailed(calc.arg)) =>
    /\ calc.out.payload = fallbackPosts
    /\ [i \in 1..Len(calc.out.payload.posts) |-> calc.out.payload.posts[i].id]
         = <<"anthology-brief-001", "voice-notes-002", "generator-003",
             "systems-004">>
    /\ [i \in 1..Len(calc.out.postList) |-> calc.out.postList[i].title]
         = <<"Anthology brief: what changed this week",
             "Voice notes: RAG maintenance signals",
             "Generator pipeline: markdown to posts.json",
             "System table: mlx-services alignment">>
    /\ calc.out.postList = renderPosts(fallbackPosts.posts)

C12_Witness ==
  /\ calc.op = "loadPosts"
  /\ calc.done
  /\ calc.arg = Http(200, BodyJson(PostsBody(FALSE, SomePosts)))
  /\ Len(calc.out.postList) = 4
  /\ calc.out.postList[4].title = "System table: mlx-services alignment"

\* C13: a diagnostics body is normalized field by field: handler_initialized
\* becomes loaded; the model_id, model_path and model_type of loaded_model
\* become the top-level fields of those names; status is copied; queue and
\* config are passed through as they are, or are null when absent. The body
\* {status "ok", handler_initialized true, loaded_model {model_id "m1",
\* model_type "chat"}, queue null, config null} becomes {status "ok", loaded
\* true, model_id "m1", model_type "chat", queue null, config null}.
C13_Example ==
  [EmptyDiagnostics EXCEPT
     !.status = "ok", !.handler_initialized = "true",
     !.loaded_model = [t |-> "obj", model_id |-> <<"m", "1">>, model_path |-> <<>>,
                       model_type |-> "chat"],
     !.queue = NullQueue, !.config = NullConfig]

C13_Normalized ==
  (calc.op = "diagnostics" /\ calc.done) =>
    LET d == calc.arg
        lm == d.loaded_model
        out == calc.out
    IN /\ out.t = "obj"
       /\ out.loaded = d.handler_initialized
       /\ out.status = d.status
       /\ lm.t = "obj" => /\ out.model_id = lm.model_id
                          /\ out.model_path = lm.model_path
                          /\ out.model_type = lm.model_type
       /\ lm.t # "obj" => /\ out.model_id = <<>>
                          /\ out.model_path = <<>>
                          /\ out.model_type = Undef
       /\ out.queue = (IF d.queue.t = "undef" THEN NullQueue ELSE d.queue)
       /\ out.config = (IF d.config.t = "undef" THEN NullConfig ELSE d.config)
       /\ d = C13_Example =>
            out = [t |-> "obj", status |-> "ok", loaded |-> "true",
                   model_id |-> <<"m", "1">>, model_path |-> <<>>,
                   model_type |-> "chat", queue |-> NullQueue,
                   config |-> NullConfig]

C13_Witness ==
  /\ calc.op = "diagnostics"
  /\ calc.done
  /\ calc.arg = C13_Example
  /\ calc.out.model_id = <<"m", "1">>
  /\ calc.out.queue.t = "null"

\* the statistics a payload carries, if it carries any
StatsData(op, arg) ==
  IF op = "legacyStats" THEN (IF arg.ok THEN arg.data ELSE NullRagData)
  ELSE IF arg.t # "obj" THEN NullRagData
  ELSE IF arg.ok = "true" THEN arg.data
  ELSE IF arg.ok = "false" THEN NullRagData
  ELSE arg.self

\* the count and the timestamp the claim names: the first present of
\* num_documents, documents, count and of updated_at, generated_at, created_at
ClaimedCount(d) ==
  IF d.num_documents # Absent THEN <<ToString(d.num_documents)>>
  ELSE IF d.documents # Absent THEN <<ToString(d.documents)>>
  ELSE IF d.count # Absent THEN <<ToString(d.count)>>
  ELSE <<"-">>

ClaimedStamp(d) ==
  IF d.updated_at.k # "undef" THEN d.updated_at
  ELSE IF d.generated_at.k # "undef" THEN d.generated_at
  ELSE d.created_at

\* C14, for the page script (app.ts extractRagStats): the document count of
\* a statistics payload is its first present field among num_documents,
\* documents, count, and the timestamp is made of the first present field
\* among updated_at, generated_at, created_at; with no candidate present the
\* value is "-". {documents: 42, created_at: "2025-01-01"} gives count "42"
\* and updated "2025-01-01".
C14_ExtractPriority ==
  (calc.op = "extractRagStats" /\ calc.done
     /\ StatsData(calc.op, calc.arg).t = "obj") =>
    LET d == StatsData(calc.op, calc.arg)
    IN /\ calc.out.docs = ClaimedCount(d)
       /\ calc.out.updated = formatTimestamp(ClaimedStamp(d))
       /\ ClaimedStamp(d).k = "undef" => calc.out.updated = <<"-">>
       /\ d = RagA => /\ calc.out.docs = <<"42">>
                      /\ calc.out.updated = <<"2025-01-01">>

C14_Witness ==
  /\ calc.op = "extractRagStats"
  /\ calc.done
  /\ calc.arg = StatsOf("true", RagA)
  /\ calc.out.docs = <<"42">>
  /\ calc.out.updated = <<"2025-01-01">>

\* C14 as claimed, for every statistics payload of either script
C14_AsClaimed ==
  (calc.op \in {"extractRagStats", "legacyStats"} /\ calc.done
     /\ StatsData(calc.op, calc.arg).t = "obj") =>
    LET d == StatsData(calc.op, calc.arg)
    IN /\ calc.out.docs = ClaimedCount(d)
       /\ calc.out.updated =
            (IF calc.op = "legacyStats" THEN LegacyFormatDate(ClaimedStamp(d))
             ELSE formatTimestamp(ClaimedStamp(d)))

\* C15: trimModelId returns a model identifier of at most 52 characters
\* unchanged, and makes of a longer one its first 24 characters, "..." and
\* its last 18 characters, 45 characters in all. (<<>> is no identifier: it
\* stands for undefined, null and the empty string, which give "-".)
C15_TrimModelId ==
  (calc.op = "trimModelId" /\ calc.done /\ Len(calc.arg) >= 1) =>
    LET n == Len(calc.arg)
    IN /\ n <= 52 => calc.out = calc.arg
       /\ n > 52 =>
            /\ Len(calc.out) = 45
            /\ \A i \in 1..24 : calc.out[i] = calc.arg[i]
            /\ \A i \in 25..27 : calc.out[i] = "."
            /\ \A i \in 1..18 : calc.out[27 + i] = calc.arg[n - 18 + i]

C15_Witness ==
  /\ calc.op = "trimModelId"
  /\ calc.done
  /\ Len(calc.arg) = 53
  /\ Len(calc.out) = 45
  /\ calc.out[28] = calc.arg[36]
  /\ calc.out # SubSeq(calc.arg, 1, 45)

\* C16: formatTimestamp takes a number t below 100000000000 (1000 units) for
\* seconds and converts the instant t*1000 ms, and takes any other number
\* for milliseconds and converts the instant t; 1700000000 and 1700000000000
\* (17 and 17000 units) give the same text. A string timestamp that is not a
\* date is returned as it is.
C16_FormatTimestamp ==
  (calc.op = "formatTimestamp" /\ calc.done) =>
    LET t == calc.arg.n
        ms == IF t < 1000 THEN t * 1000 ELSE t
    IN /\ calc.arg.k = "num" =>
            /\ ValidDate(ms) => calc.out = IsoMinute(ms)
            /\ ~ValidDate(ms) => calc.out = <<"-">>
            /\ t \in {17, 17000} => calc.out = IsoMinute(17000)
       /\ (calc.arg.k = "str" /\ calc.arg.d.raw # "" /\ calc.arg.d.iso = Undef)
            => calc.out = <<calc.arg.d.raw>>

C16_Witness ==
  /\ calc.op = "formatTimestamp"
  /\ calc.done
  /\ calc.arg = NumStamp(17)
  /\ calc.out = formatTimestamp(NumStamp(17000))
  /\ calc.out # formatTimestamp(NumStamp(18))

\* the number shown for a queue statistic: the value, or 0 when it is missing
Shown(n) == <<ToString(IF n = 0 - 1 THEN 0 ELSE n)>>

NoConfigFacet(c) ==
  c.t # "obj" \/ (/\ c.max_concurrency = 0 - 1
                  /\ c.queue_size = 0 - 1
                  /\ c.queue_timeout = 0 - 1
                  /\ c.mlx_warmup \notin {"true", "false"})

\* C17, as the code has it: with no status at all every field of the panel
\* is "-"; with a status, a missing model type or model name is shown as "-"
\* and the config line is "-" exactly when none of max_concurrency,
\* queue_size, queue_timeout, mlx_warmup is present, but a missing queue
\* statistic is shown as 0 ("0 active / 0 queued", "0 streams"), never as
\* "-". In a collection row of the system table a missing count and a missing
\* timestamp are shown as "-".
C17_Placeholders ==
  /\ (calc.op = "updateRuntimePanel" /\ calc.done /\ calc.arg.t # "obj") =>
       /\ calc.out.type = <<"-">> /\ calc.out.model = <<"-">>
       /\ calc.out.queue = <<"-">> /\ calc.out.active = <<"-">>
       /\ calc.out.config = <<"-">>
  /\ (calc.op = "updateRuntimePanel" /\ calc.done /\ calc.arg.t = "obj") =>
       LET q == calc.arg.queue
           stats == IF q.t = "obj" /\ q.has_stats THEN q ELSE NoQueue
           streams == IF q.t = "obj" THEN q.active_streams ELSE 0 - 1
       IN /\ calc.arg.model_type = Undef => calc.out.type = <<"-">>
          /\ (calc.arg.model_id = <<>> /\ calc.arg.model_path = <<>>)
               => calc.out.model = <<"-">>
          /\ calc.out.queue = Shown(stats.active_requests) \o <<" active / ">>
                              \o Shown(stats.queue_size) \o <<" queued">>
          /\ calc.out.active = Shown(streams) \o <<" streams">>
          /\ (calc.out.config = <<"-">>) <=> NoConfigFacet(calc.arg.config)
  /\ (calc.op = "extractRagStats" /\ calc.done) =>
       LET d == StatsData(calc.op, calc.arg)
       IN /\ (d.t # "obj" \/ ClaimedCount(d) = <<"-">>) => calc.out.docs = <<"-">>
          /\ (d.t # "obj" \/ ClaimedStamp(d).k = "undef")
               => calc.out.updated = <<"-">>

C17_Witness ==
  /\ calc.op = "updateRuntimePanel"
  /\ calc.done
  /\ calc.arg.t = "obj"
  /\ calc.arg.queue = Queue(0 - 1, 2, 0 - 1)
  /\ calc.arg.config = NoConfig
  /\ calc.out.queue = <<"0", " active / ", "2", " queued">>
  /\ calc.out.active = <<"0", " streams">>
  /\ calc.out.config = <<"-">>

\* C17 as claimed: a missing queue statistic is shown as "-" too
C17_AsClaimed ==
  (calc.op = "updateRuntimePanel" /\ calc.done /\ calc.arg.t = "obj") =>
    LET q == calc.arg.queue
    IN /\ (q.t # "obj" \/ ~q.has_stats \/ q.active_requests = 0 - 1
             \/ q.queue_size = 0 - 1)
            => \E i \in 1..Len(calc.out.queue) : calc.out.queue[i] = "-"
       /\ (q.t # "obj" \/ q.active_streams = 0 - 1)
            => \E i \in 1..Len(calc.out.active) : calc.out.active[i] = "-"

\* C18: a refresh made while a bootstrap run is in flight does not cancel
\* it. No step removes a run or makes it lose ground, a refresh leaves every
\* earlier run as it is, and every run, whenever it was started, writes the
\* post list when its posts arrive and the status table when its rows are
\* complete: the run that finishes last is the one displayed, which can be
\* the run that started first.
C18_RefreshDoesNotCancel ==
  [][/\ Len(boots') >= Len(boots)
     /\ \A b \in 1..Len(boots) :
          /\ IsPrefix(boots[b].log, boots'[b].log)
          /\ Len(boots') > Len(boots) => boots'[b] = boots[b]
          /\ boots[b].pc = "done" => boots'[b] = boots[b]
          /\ (boots[b].pc = "posts" /\ boots'[b].pc # "posts") =>
               \E o \in PostsOutcomes("slim") :
                 /\ dom'.postList = renderPosts(loadPosts(o).posts)
                 /\ dom'.headlineGrid = renderHeadlines(loadPosts(o).posts)
          /\ (boots[b].pc # "done" /\ boots'[b].pc = "done") =>
               dom'.systemTableBody = renderTableRows(boots'[b].rows)]_vars

\* both runs are complete and the table is the one of the run started first,
\* which differs from the one of the run started by the refresh
C18_Witness ==
  /\ Len(boots) = 2
  /\ boots[1].pc = "done"
  /\ boots[2].pc = "done"
  /\ boots[1].rows # boots[2].rows
  /\ dom.systemTableBody = renderTableRows(boots[1].rows)
  /\ dom.systemTableBody # renderTableRows(boots[2].rows)

\* C19: whatever bootstrap runs were made, overlapping or not, the status
\* table is at every moment either as served or exactly the complete row list
\* one completed run computed (rows never accumulate across runs, and no
\* partial or mixed list is shown), and the post list is either as served or
\* the cards of one loadPosts result, with the headlines of the same result.
C19_WholeRenders ==
  /\ \/ dom.systemTableBody = <<>>
     \/ \E b \in 1..Len(boots) :
          /\ boots[b].pc = "done"
          /\ dom.systemTableBody = renderTableRows(boots[b].rows)
          /\ [i \in 1..Len(dom.systemTableBody) |-> dom.systemTableBody[i].resource]
               = RowOrder(boots[b].eco)
  /\ \/ dom.postList = <<>> /\ dom.headlineGrid = <<>>
     \/ /\ \E b \in 1..Len(boots) : boots[b].pc # "posts"
        /\ \E o \in PostsOutcomes("slim") :
             /\ dom.postList = renderPosts(loadPosts(o).posts)
             /\ dom.headlineGrid = renderHeadlines(loadPosts(o).posts)

\* two runs are complete, with different rows, and the table holds the rows
\* of the second alone
C19_Witness ==
  /\ Len(boots) = 2
  /\ boots[1].pc = "done"
  /\ boots[2].pc = "done"
  /\ boots[1].rows # boots[2].rows
  /\ dom.systemTableBody = renderTableRows(boots[2].rows)
  /\ dom.systemTableBody # renderTableRows(boots[1].rows)
  /\ Len(dom.systemTableBody) = Len(boots[2].rows)
  /\ Len(dom.postList) = 4

AnyDisabled == disabled.refresh \/ disabled.unload \/ disabled.load

\* C20: when every request issued settles, the controls of the runtime panel
\* that a refresh, load or unload action disabled are all three enabled
\* again in the end, whatever the outcome; once no action is in flight none
\* of them is disabled; and an action that returns before issuing a request
\* leaves them as they were.
C20_ControlsReenabled ==
  /\ AnyDisabled ~> ~AnyDisabled
  /\ []((\A c \in 1..Len(acts) : ~InFlight(acts[c])) => ~AnyDisabled)
  /\ [][(Len(acts') > Len(acts) /\ acts'[Len(acts')].end = "early")
          => (disabled' = disabled /\ ~AnyDisabled')]_vars

\* a load returned early, then an unload was answered with a non-2xx status
\* and has ended: the controls are enabled
C20_Witness ==
  /\ Len(acts) = 2
  /\ acts[1].kind = "load"
  /\ acts[1].end = "early"
  /\ acts[2].kind = "unload"
  /\ acts[2].end = "http"
  /\ ~InFlight(acts[2])
  /\ ~AnyDisabled

====
